---- MODULE Spec2Model ----
(***************************************************************************)
(* ORANSim: the event scheduler (oransim/simulation/scheduler.py, a thin   *)
(* layer over a SimPy environment), the routers built on it (the           *)
(* point-to-point X2, Xn and F1 interfaces, the E2 publish/subscribe       *)
(* interface, the open fronthaul with its sampled latency, all under       *)
(* oransim/interfaces) and the Near-RT RIC's policy store and enforcement  *)
(* (oransim/core/ric.py, oransim/interfaces/a1.py).                        *)
(*                                                                         *)
(* A time is a binary64 number of seconds, as in the code.  The model       *)
(* writes the float nearest to k/10 s as the integer k * Tenth and the     *)
(* float d places after it in the order of the floats as k * Tenth + d, so *)
(* that the order of the integers is the order of the times; Sec(n) is a   *)
(* whole number of seconds.  Sums of whole seconds are exact; the sums the *)
(* code makes of tenths of a second are not, and TimePlus and StopTime     *)
(* give what binary64 addition gives (0.2 + 0.1 is one place after 0.3).   *)
(*                                                                         *)
(* The SimPy environment is modelled by what its heap does: every entry is *)
(* keyed by (time, priority, eid), eid being a counter that grows with     *)
(* each insertion, and step() pops the least entry.  A process puts its    *)
(* own entry on the heap when its generator returns or raises.             *)
(***************************************************************************)
EXTENDS Integers, Sequences, FiniteSets, TLC

\* ---------------------------------------------------------------- bounds
MaxTime == 3      \* largest `until` the driver passes to run, in seconds
MaxDelay == 2     \* largest delay passed to add_event, in seconds
MaxCalls == 2     \* add_event calls in one behaviour
MaxUes == 1       \* UEs admitted with add_ue
MaxFail == 1      \* processes that die of an uncaught exception
MaxSends == 2     \* messages accepted by send_message in one behaviour
MaxP2PTime == 1   \* largest `until` of a run that drives a router, in seconds
MaxLatency == 2   \* largest fronthaul latency sample, in seconds
MaxPolicies == 2  \* policies handed to the Near-RT RIC in one behaviour
MaxEnforce == 2   \* enforce_a1_policies calls in one behaviour
MaxPublish == 1   \* E2 messages published in one behaviour
MaxManaged == 2   \* add_managed_near_rt_ric calls in one behaviour
MaxObjects == 2   \* policies made by create_a1_policy in one behaviour
MaxTicks == 5     \* update_position calls on one mobility model
MaxElapsed == 2   \* largest time_elapsed passed to update_position
MaxPause == 2     \* largest sample of the pause duration
MaxMonitorTime == 11  \* latest `until` of a run with the load-balancing
                      \* rApp, in seconds
MaxUeTime == 8    \* largest `until` of a run with UEs, in tenths of a second
MaxFhTime == 2    \* largest `until` of a run with the fronthaul, in seconds

\* ------------------------------------------------------- program constants
URGENT == 0       \* simpy.core.URGENT: Initialize events and run's `until`
NORMAL == 1       \* simpy.core.NORMAL: Timeout events, ended processes
Tenth == 1000     \* the float 0.1
UeTick == Tenth   \* the 0.1 of `yield self.env.timeout(0.1)`

VARIABLES
  now,        \* env.now
  queue,      \* env._queue: the set of heap entries
  eid,        \* env._eid: the next insertion number
  pc,         \* where control is: "idle" (driver code), "run" (env.run's loop),
              \* "cb" (inside a callback called by event_wrapper),
              \* "pmq" (inside _process_message_queue), "handler" (inside a
              \* node's receive handler)
  cur,        \* the add_event call whose callback is running (0: none)
  runUntil,   \* the `until` argument of the latest accepted run
  nrun,       \* history: the number of accepted run calls
  ues,        \* scheduler.ues: per UE, when it was added and the history
              \* of its update_position calls
  calls,      \* history: the add_event calls that were accepted, in call
              \* order (a call's index names its callback)
  log,        \* history: the callback invocations, in invocation order
  last,       \* the latest API call or step and how it ended
  nfail,      \* history: processes that died of an uncaught exception
  nodes,      \* router.nodes: node id -> handle ("none": not registered)
  mq,         \* router.message_queue
  sent,       \* history: the send_message calls that were accepted, in call
              \* order (a call's index names its message); for the fronthaul
              \* the accepted transmissions, for the Near-RT RIC the policy
              \* dicts handed to receive_a1_policy
  recv,       \* history: the messages taken off the queue and the handler
              \* each was handed to
  f1ep,       \* F1Interface.cu_cp, cu_up, du: endpoint name -> handle
  subs,       \* E2Interface.e2_subscribers, a dict: the sequence of its
              \* (id, callback) items in insertion order
  fan,        \* the fan-out in progress: the dict iterator of the for loop
              \* over e2_subscribers.items() and the message it hands out
  fh,         \* OpenFronthaulInterface.o_ru and o_du
  policies,   \* NearRTRIC.a1_policies, a dict: the sequence of its
              \* (policy_id, policy) items in insertion order
  e2nodes,    \* NearRTRIC.e2_nodes, a dict: the sequence of its
              \* (node_id, class name) items in insertion order
  applied,    \* history: for each enforce_a1_policies call, the sequence of
              \* (policy, element) pairs it logged as applied
  managed,    \* NonRTRIC.managed_near_rt_rics, a list of Near-RT RICs
  heap,       \* the A1Policy objects made so far, in the order they were
              \* made; an object's index is its identity
  rapp,       \* RApp.policies, a dict: the sequence of its (policy_id,
              \* object) items in insertion order
  xapps,      \* NearRTRIC.xapps, a dict: the sequence of its (xapp_id,
              \* xApp) items in insertion order
  rwp,        \* a RandomWaypointModel, the position its caller holds and
              \* the latest update_position call
  mh          \* a ManhattanModel, the position its caller holds and the
              \* latest update_position call

vars == <<now, queue, eid, pc, cur, runUntil, nrun, ues, calls, log, last,
          nfail, nodes, mq, sent, recv, f1ep, subs, fan, fh, policies,
          e2nodes, applied, managed, heap, rapp, xapps, rwp, mh>>
schedVars == <<now, queue, eid, pc, cur, runUntil, nrun, ues, log, nfail>>
routerVars == <<nodes, mq, sent, recv>>
e2Vars == <<subs, fan>>
ricVars == <<policies, e2nodes, applied>>
\* the state of the components other than the scheduler and the X2/Xn router
nonRtVars == <<managed, heap, rapp>>
mobVars == <<rwp, mh>>
\* the state of the Non-RT RIC, the rApp, the xApp registry and the
\* mobility models
moreVars == <<nonRtVars, xapps, mobVars>>
extVars == <<f1ep, e2Vars, fh, ricVars, moreVars>>

\* ------------------------------------------------------------------ time
\* the float n.0
Sec(n) == 10 * Tenth * n

\* the float sums a + b, a a clock value and b = 0.1, that are not the float
\* nearest to the decimal sum: 0.2 + 0.1 = 0.30000000000000004,
\* 0.30000000000000004 + 0.1 = 0.4, 0.7 + 0.1 = 0.7999999999999999,
\* 1.0999999999999999 + 0.1 = 1.2, 1.1 + 0.1 = 1.2000000000000002,
\* 1.1000000000000003 + 0.1 = 1.2000000000000004; tabulated for the clock
\* values below 1.3 s that sums of 0.1 and stops at tenths of a second reach
FloatSum ==
  (<<2 * Tenth, Tenth>> :> 3 * Tenth + 1) @@
  (<<3 * Tenth + 1, Tenth>> :> 4 * Tenth) @@
  (<<7 * Tenth, Tenth>> :> 8 * Tenth - 1) @@
  (<<11 * Tenth - 1, Tenth>> :> 12 * Tenth) @@
  (<<11 * Tenth, Tenth>> :> 12 * Tenth + 1) @@
  (<<11 * Tenth + 1, Tenth>> :> 12 * Tenth + 2)

\* the float values of now + (until - now) that are not until:
\* 0.2 + (0.9 - 0.2) = 0.8999999999999999,
\* 0.3 + (0.9 - 0.3) = 0.9000000000000001; tabulated like FloatSum
FloatStop ==
  (<<2 * Tenth, 9 * Tenth>> :> 9 * Tenth - 1) @@
  (<<3 * Tenth, 9 * Tenth>> :> 9 * Tenth + 1)

\* a + b in binary64
TimePlus(a, b) ==
  IF <<a, b>> \in DOMAIN FloatSum THEN FloatSum[<<a, b>>] ELSE a + b

\* now + (until - now) in binary64, for until > now
StopTime(t, until) ==
  IF <<t, until>> \in DOMAIN FloatStop THEN FloatStop[<<t, until>>] ELSE until

\* ------------------------------------------------------------------ heap
\* heapq's order on (time, priority, eid, event) tuples
\* ties between entries of one time and priority broken newest first
LessLifo(e, f) ==
  \/ e.time < f.time
  \/ e.time = f.time /\ e.prio < f.prio
  \/ e.time = f.time /\ e.prio = f.prio /\ e.eid > f.eid

Less(e, f) ==
  \/ e.time < f.time
  \/ e.time = f.time /\ e.prio < f.prio
  \/ e.time = f.time /\ e.prio = f.prio /\ e.eid < f.eid

\* heappop: the least entry
HeapTop(q) == CHOOSE e \in q : \A f \in q \ {e} : Less(e, f)

\* Environment.schedule(event, priority, delay): the heap entry
Entry(t, p, n, k, c, d) ==
  [time |-> t, prio |-> p, eid |-> n, kind |-> k, cb |-> c, delay |-> d]

\* code that may call the API: the driver, a callback, a receive handler
UserCode == pc \in {"idle", "cb", "handler"}

\* the run a call is made from: 0 for the driver, else the run in progress
CallerRun == IF pc = "idle" THEN 0 ELSE nrun

\* the time at which an add_event call fires: clock at the call + delay
FireTime(c) == TimePlus(calls[c].at, calls[c].delay)

Invoked == {log[i].cb : i \in 1..Len(log)}

\* ------------------------------------------------------------- scheduler
\* env.process(event_wrapper()) of add_event: the process's Initialize entry
\* goes on the heap, URGENT, at the current time
ScheduleProcess(d, k) ==
  /\ calls' = Append(calls, [delay |-> d, at |-> now, kind |-> k,
                             run |-> CallerRun])
  /\ queue' = queue \cup {Entry(now, URGENT, eid, "init", Len(calls) + 1, d)}
  /\ eid' = eid + 1

\* add_event(delay, callback) with delay >= 0
AddEvent(d) ==
  /\ UserCode
  /\ d >= 0
  /\ Len(calls) < MaxCalls
  /\ ScheduleProcess(d, "user")
  /\ last' = "add_event"
  /\ UNCHANGED <<now, pc, cur, runUntil, nrun, ues, log, nfail, routerVars>>
  /\ UNCHANGED extVars

\* add_event without its delay check: the process is created whatever the delay
AddEventUnchecked(d) ==
  /\ UserCode
  /\ d < 0
  /\ Len(calls) < MaxCalls
  /\ ScheduleProcess(d, "user")
  /\ last' = "add_event"
  /\ UNCHANGED <<now, pc, cur, runUntil, nrun, ues, log, nfail, routerVars>>
  /\ UNCHANGED extVars

\* add_event with delay < 0 raises ValueError before anything is created
AddEventNegative(d) ==
  /\ UserCode
  /\ d < 0
  /\ last' = "add_event_error"
  /\ UNCHANGED <<schedVars, calls, routerVars>>
  /\ UNCHANGED extVars

\* add_ue: append the UE and start its mobility process; the entries of
\* the process carry the UE's index in scheduler.ues as their cb field
AddUe ==
  /\ UserCode
  /\ Len(ues) < MaxUes
  /\ ues' = Append(ues, [at |-> now, ticks |-> <<>>])
  /\ queue' = queue \cup {Entry(now, URGENT, eid, "ueinit", Len(ues) + 1, 0)}
  /\ eid' = eid + 1
  /\ last' = "add_ue"
  /\ UNCHANGED <<now, pc, cur, runUntil, nrun, calls, log, nfail, routerVars>>
  /\ UNCHANGED extVars

\* run(until) with until <= env.now raises ValueError
RunInvalid(T) ==
  /\ pc = "idle"
  /\ T <= now
  /\ last' = "run_error"
  /\ UNCHANGED <<schedVars, calls, routerVars>>
  /\ UNCHANGED extVars

\* run(until): env.run schedules its stop event URGENT at now + (until - now)
\* and enters the step loop
Run(T) ==
  /\ pc = "idle"
  /\ T > now
  /\ queue' = queue \cup {Entry(StopTime(now, T), URGENT, eid, "until", 0, 0)}
  /\ eid' = eid + 1
  /\ runUntil' = T
  /\ nrun' = nrun + 1
  /\ pc' = "run"
  /\ last' = "run"
  /\ UNCHANGED <<now, cur, ues, calls, log, nfail, routerVars>>
  /\ UNCHANGED extVars

\* step(): an Initialize entry starts event_wrapper, which runs to its
\* `yield self.env.timeout(delay)`: a Timeout entry, NORMAL, at now + delay
StepInit ==
  /\ pc = "run"
  /\ LET e == HeapTop(queue) IN
       /\ e.kind = "init"
       /\ now' = e.time
       /\ queue' = (queue \ {e}) \cup
                     {Entry(TimePlus(e.time, e.delay), NORMAL, eid, "timeout",
                            e.cb, 0)}
       /\ eid' = eid + 1
  /\ last' = "step"
  /\ UNCHANGED <<pc, cur, runUntil, nrun, ues, calls, log, nfail, routerVars>>
  /\ UNCHANGED extVars

\* step(): the Initialize entry of a mobility process: the generator runs to
\* its first `yield self.env.timeout(0.1)`
StepUeInit ==
  /\ pc = "run"
  /\ LET e == HeapTop(queue) IN
       /\ e.kind = "ueinit"
       /\ now' = e.time
       /\ queue' = (queue \ {e}) \cup
                     {Entry(TimePlus(e.time, UeTick), NORMAL, eid, "uetick",
                            e.cb, 0)}
       /\ eid' = eid + 1
  /\ last' = "step"
  /\ UNCHANGED <<pc, cur, runUntil, nrun, ues, calls, log, nfail, routerVars>>
  /\ UNCHANGED extVars

\* step(): a Timeout entry resumes event_wrapper, which calls the callback
StepTimeout ==
  /\ pc = "run"
  /\ LET e == HeapTop(queue) IN
       /\ e.kind = "timeout"
       /\ now' = e.time
       /\ queue' = queue \ {e}
       /\ cur' = e.cb
       /\ log' = Append(log, [cb |-> e.cb, time |-> e.time, run |-> nrun,
                              out |-> "running"])
       /\ pc' = IF calls[e.cb].kind = "pmq" THEN "pmq" ELSE "cb"
  /\ last' = "invoke"
  /\ UNCHANGED <<eid, runUntil, nrun, ues, calls, nfail, routerVars>>
  /\ UNCHANGED extVars

\* Process._resume when the generator of a process returns: env.schedule(self)
\* puts the process's own entry on the heap, NORMAL, at the current time;
\* c is the add_event call the process was made for
ProcessEnd(c) == Entry(now, NORMAL, eid, "end", c, 0)

\* the callback returns ("ok"), or raises an exception that event_wrapper's
\* `except Exception` catches and logs with callback.__name__ ("raise"): in
\* both cases event_wrapper returns and the process ends.  A callable that
\* carries no __name__ (a functools.partial, an instance with __call__) makes
\* that handler itself raise AttributeError ("raise_noname"): the process
\* dies, and its entry, put on the heap in the same way, carries the exception
CbReturn(outcome) ==
  /\ pc = "cb"
  /\ outcome = "raise_noname" => nfail < MaxFail
  /\ queue' = queue \cup {IF outcome = "raise_noname"
                            THEN Entry(now, NORMAL, eid, "fail", cur, 0)
                            ELSE ProcessEnd(cur)}
  /\ eid' = eid + 1
  /\ nfail' = IF outcome = "raise_noname" THEN nfail + 1 ELSE nfail
  /\ log' = [log EXCEPT ![Len(log)].out = outcome]
  /\ pc' = "run"
  /\ cur' = 0
  /\ last' = IF outcome = "ok" THEN "cb_ok" ELSE "cb_raised"
  /\ UNCHANGED <<now, runUntil, nrun, ues, calls, routerVars>>
  /\ UNCHANGED extVars

\* step(): a mobility tick: ue.update_position(0.1), then the loop yields the
\* next timeout; an exception of update_position is caught nowhere in
\* _ue_mobility_process, so the process dies
StepUeTick(outcome) ==
  /\ pc = "run"
  /\ outcome = "raise" => nfail < MaxFail
  /\ LET e == HeapTop(queue) IN
       /\ e.kind = "uetick"
       /\ now' = e.time
       /\ queue' = (queue \ {e}) \cup
            {IF outcome = "ok"
               THEN Entry(TimePlus(e.time, UeTick), NORMAL, eid, "uetick",
                          e.cb, 0)
               ELSE Entry(e.time, NORMAL, eid, "fail", 0, 0)}
       /\ ues' = [ues EXCEPT ![e.cb].ticks =
                    Append(@, [time |-> e.time, out |-> outcome])]
       /\ eid' = eid + 1
  /\ nfail' = IF outcome = "raise" THEN nfail + 1 ELSE nfail
  /\ last' = IF outcome = "ok" THEN "ue_ok" ELSE "ue_raised"
  /\ UNCHANGED <<pc, cur, runUntil, nrun, calls, log, routerVars>>
  /\ UNCHANGED extVars

\* step(): a stop event of run: StopSimulation ends env.run, run returns
StepUntil ==
  /\ pc = "run"
  /\ LET e == HeapTop(queue) IN
       /\ e.kind = "until"
       /\ now' = e.time
       /\ queue' = queue \ {e}
  /\ pc' = "idle"
  /\ last' = "run_returned"
  /\ UNCHANGED <<eid, cur, runUntil, nrun, ues, calls, log, nfail, routerVars>>
  /\ UNCHANGED extVars

\* step(): the entry of a process that died: step() re-raises its exception,
\* which leaves env.run and run; the stop event of that run stays on the heap
StepFail ==
  /\ pc = "run"
  /\ LET e == HeapTop(queue) IN
       /\ e.kind = "fail"
       /\ now' = e.time
       /\ queue' = queue \ {e}
       /\ last' = IF e.cb = 0 THEN "run_raised_ue" ELSE "run_raised_cb"
  /\ pc' = "idle"
  /\ UNCHANGED <<eid, cur, runUntil, nrun, ues, calls, log, nfail, routerVars>>
  /\ UNCHANGED extVars

\* step(): the entry of a process that ended normally: it has no callbacks,
\* only the clock is set
StepEnd ==
  /\ pc = "run"
  /\ LET e == HeapTop(queue) IN
       /\ e.kind = "end"
       /\ now' = e.time
       /\ queue' = queue \ {e}
  /\ last' = "step"
  /\ UNCHANGED <<eid, pc, cur, runUntil, nrun, ues, calls, log, nfail,
                 routerVars>>
  /\ UNCHANGED extVars

\* ------------------------------------------ point-to-point router (X2, Xn)
NodeIds == {"a", "b"}
Handles == {"h1", "h2"}
\* the registrations the driver makes: "a" twice, under two node objects,
\* and "b" once
Registrations ==
  {n \in NodeIds \X Handles : n[1] = "a" \/ n[2] = "h2"}

\* register_node that stores the node whether or not the id is taken
RegisterNodeOverwrite(id, h) ==
  /\ pc = "idle"
  /\ nodes' = [nodes EXCEPT ![id] = h]
  /\ last' = "register_ok"
  /\ UNCHANGED <<schedVars, calls, mq, sent, recv>>
  /\ UNCHANGED extVars

\* register_node(node_id, node): an id already registered keeps its node
RegisterNode(id, h) ==
  /\ pc = "idle"
  /\ IF nodes[id] # "none"
       THEN /\ last' = IF h = nodes[id] THEN "register_dup_same"
                                        ELSE "register_dup_other"
            /\ UNCHANGED nodes
       ELSE /\ nodes' = [nodes EXCEPT ![id] = h]
            /\ last' = "register_ok"
  /\ UNCHANGED <<schedVars, calls, mq, sent, recv>>
  /\ UNCHANGED extVars

\* unregister_node(node_id)
UnregisterNode(id) ==
  /\ pc = "idle"
  /\ IF nodes[id] # "none"
       THEN /\ nodes' = [nodes EXCEPT ![id] = "none"]
            /\ last' = "unregister_ok"
       ELSE /\ last' = "unregister_missing"
            /\ UNCHANGED nodes
  /\ UNCHANGED <<schedVars, calls, mq, sent, recv>>
  /\ UNCHANGED extVars

\* send_message that schedules its processing pass one second after the
\* send
SendMessageLater(s, d) ==
  /\ UserCode
  /\ IF nodes[s] = "none" \/ nodes[d] = "none"
       THEN /\ last' = "send_error"
            /\ UNCHANGED <<mq, sent, calls, queue, eid>>
       ELSE /\ Len(sent) < MaxSends
            /\ sent' = Append(sent, [src |-> s, dst |-> d, at |-> now,
                                     srcReg |-> nodes[s] # "none",
                                     dstReg |-> nodes[d] # "none"])
            /\ mq' = Append(mq, [msg |-> Len(sent) + 1, src |-> s, dst |-> d])
            /\ ScheduleProcess(Sec(1), "pmq")
            /\ last' = "send_ok"
  /\ UNCHANGED <<now, pc, cur, runUntil, nrun, ues, log, nfail, nodes, recv>>
  /\ UNCHANGED extVars

\* send_message that checks the source only
SendMessageSrcOnly(s, d) ==
  /\ UserCode
  /\ IF nodes[s] = "none"
       THEN /\ last' = "send_error"
            /\ UNCHANGED <<mq, sent, calls, queue, eid>>
       ELSE /\ Len(sent) < MaxSends
            /\ sent' = Append(sent, [src |-> s, dst |-> d, at |-> now,
                                     srcReg |-> nodes[s] # "none",
                                     dstReg |-> nodes[d] # "none"])
            /\ mq' = Append(mq, [msg |-> Len(sent) + 1, src |-> s, dst |-> d])
            /\ ScheduleProcess(0, "pmq")
            /\ last' = "send_ok"
  /\ UNCHANGED <<now, pc, cur, runUntil, nrun, ues, log, nfail, nodes, recv>>
  /\ UNCHANGED extVars

\* send_message(message, source_node_id, dest_node_id): ValueError for an
\* unregistered source or destination, else queue.put and add_event(0,
\* self._process_message_queue)
SendMessage(s, d) ==
  /\ UserCode
  /\ IF nodes[s] = "none" \/ nodes[d] = "none"
       THEN /\ last' = "send_error"
            /\ UNCHANGED <<mq, sent, calls, queue, eid>>
       ELSE /\ Len(sent) < MaxSends
            /\ sent' = Append(sent, [src |-> s, dst |-> d, at |-> now,
                                     srcReg |-> nodes[s] # "none",
                                     dstReg |-> nodes[d] # "none"])
            /\ mq' = Append(mq, [msg |-> Len(sent) + 1, src |-> s, dst |-> d])
            /\ ScheduleProcess(0, "pmq")
            /\ last' = "send_ok"
  /\ UNCHANGED <<now, pc, cur, runUntil, nrun, ues, log, nfail, nodes, recv>>
  /\ UNCHANGED extVars

\* a delivery loop over a stack: it takes the message queued last
PmqDeliverLifo ==
  /\ pc = "pmq"
  /\ mq # <<>>
  /\ LET m == mq[Len(mq)]
         others == SubSeq(mq, 1, Len(mq) - 1) IN
       /\ mq' = others
       /\ recv' = Append(recv, [msg |-> m.msg, src |-> m.src, dst |-> m.dst,
                                handle |-> nodes[m.dst], reg |-> nodes,
                                time |-> now, pass |-> cur,
                                out |-> IF nodes[m.dst] = "none"
                                          THEN "keyerror" ELSE "running",
                                rest |-> IF nodes[m.dst] = "none"
                                           THEN others ELSE <<>>])
       /\ pc' = IF nodes[m.dst] = "none" THEN "pmq" ELSE "handler"
       /\ last' = IF nodes[m.dst] = "none" THEN "deliver_keyerror"
                                           ELSE "deliver"
  /\ UNCHANGED <<now, queue, eid, cur, runUntil, nrun, ues, calls, log, nfail,
                 nodes, sent>>
  /\ UNCHANGED extVars

\* a delivery that looks up the source instead of the destination
PmqDeliverToSource ==
  /\ pc = "pmq"
  /\ mq # <<>>
  /\ LET m == Head(mq) IN
       /\ mq' = Tail(mq)
       /\ recv' = Append(recv, [msg |-> m.msg, src |-> m.src, dst |-> m.dst,
                                handle |-> nodes[m.src], reg |-> nodes,
                                time |-> now, pass |-> cur,
                                out |-> IF nodes[m.src] = "none"
                                          THEN "keyerror" ELSE "running",
                                rest |-> IF nodes[m.src] = "none"
                                           THEN Tail(mq) ELSE <<>>])
       /\ pc' = IF nodes[m.src] = "none" THEN "pmq" ELSE "handler"
       /\ last' = IF nodes[m.src] = "none" THEN "deliver_keyerror"
                                           ELSE "deliver"
  /\ UNCHANGED <<now, queue, eid, cur, runUntil, nrun, ues, calls, log, nfail,
                 nodes, sent>>
  /\ UNCHANGED extVars

\* _process_message_queue, one turn of its loop: queue.get, look the
\* destination up and call its receive handler; a missing destination is a
\* KeyError, logged
PmqDeliver ==
  /\ pc = "pmq"
  /\ mq # <<>>
  /\ LET m == Head(mq) IN
       /\ mq' = Tail(mq)
       /\ recv' = Append(recv, [msg |-> m.msg, src |-> m.src, dst |-> m.dst,
                                handle |-> nodes[m.dst], reg |-> nodes,
                                time |-> now, pass |-> cur,
                                out |-> IF nodes[m.dst] = "none"
                                          THEN "keyerror" ELSE "running",
                                rest |-> IF nodes[m.dst] = "none"
                                           THEN Tail(mq) ELSE <<>>])
       /\ pc' = IF nodes[m.dst] = "none" THEN "pmq" ELSE "handler"
       /\ last' = IF nodes[m.dst] = "none" THEN "deliver_keyerror"
                                           ELSE "deliver"
  /\ UNCHANGED <<now, queue, eid, cur, runUntil, nrun, ues, calls, log, nfail,
                 nodes, sent>>
  /\ UNCHANGED extVars

\* a delivery loop without its try/except: the handler's exception leaves
\* _process_message_queue and event_wrapper catches it
HandlerReturnEscapes(outcome) ==
  /\ pc = "handler"
  /\ recv' = [recv EXCEPT ![Len(recv)].out =
                            IF outcome = "ok" THEN "ok" ELSE "raised",
                          ![Len(recv)].rest = mq]
  /\ pc' = IF outcome = "ok" THEN "pmq" ELSE "run"
  /\ cur' = IF outcome = "ok" THEN cur ELSE 0
  /\ log' = IF outcome = "ok" THEN log
                              ELSE [log EXCEPT ![Len(log)].out = "raised"]
  /\ last' = IF outcome = "ok" THEN "handler_ok" ELSE "handler_raised"
  /\ queue' = IF outcome = "ok" THEN queue ELSE queue \cup {ProcessEnd(cur)}
  /\ eid' = IF outcome = "ok" THEN eid ELSE eid + 1
  /\ UNCHANGED <<now, runUntil, nrun, ues, calls, nfail, nodes, mq, sent>>
  /\ UNCHANGED extVars

\* the receive handler returns or raises; `except Exception` logs the error
\* and the loop goes on.  recv notes how the handler ended and what was
\* queued at that moment
HandlerReturn(outcome) ==
  /\ pc = "handler"
  /\ recv' = [recv EXCEPT ![Len(recv)].out =
                            IF outcome = "ok" THEN "ok" ELSE "raised",
                          ![Len(recv)].rest = mq]
  /\ pc' = "pmq"
  /\ last' = IF outcome = "ok" THEN "handler_ok" ELSE "handler_raised"
  /\ UNCHANGED <<now, queue, eid, cur, runUntil, nrun, ues, calls, log, nfail,
                 nodes, mq, sent>>
  /\ UNCHANGED extVars

\* _process_message_queue returns when the queue is empty, and event_wrapper
\* after it: the process ends
PmqDone ==
  /\ pc = "pmq"
  /\ mq = <<>>
  /\ log' = [log EXCEPT ![Len(log)].out = "ok"]
  /\ queue' = queue \cup {ProcessEnd(cur)}
  /\ eid' = eid + 1
  /\ pc' = "run"
  /\ cur' = 0
  /\ last' = "cb_ok"
  /\ UNCHANGED <<now, runUntil, nrun, ues, calls, nfail, routerVars>>
  /\ UNCHANGED extVars

\* ----------------------------------------------------------- F1 router
\* the node names send_message accepts (f1.py:65-68)
F1Names == {"o_cu_cp", "o_cu_up", "o_du"}
\* a name send_message does not accept
F1BadName == "o_ru"

\* set_cu_cp, set_cu_up, set_du: the endpoint attribute is assigned
F1SetEndpoint(n, h) ==
  /\ pc = "idle"
  /\ f1ep' = [f1ep EXCEPT ![n] = h]
  /\ last' = "set_endpoint"
  /\ UNCHANGED <<schedVars, calls, routerVars, e2Vars, fh, ricVars>>
  /\ UNCHANGED moreVars

\* send_message(message, source_node, dest_node): ValueError for a name
\* outside the three, else queue.put and add_event(0,
\* self._process_message_queue); whether the endpoint is set is not looked at
F1SendMessage(s, d) ==
  /\ UserCode
  /\ IF s \notin F1Names \/ d \notin F1Names
       THEN /\ last' = "send_error"
            /\ UNCHANGED <<mq, sent, calls, queue, eid>>
       ELSE /\ Len(sent) < MaxSends
            /\ sent' = Append(sent, [src |-> s, dst |-> d, at |-> now,
                                     srcReg |-> f1ep[s] # "none",
                                     dstReg |-> f1ep[d] # "none"])
            /\ mq' = Append(mq, [msg |-> Len(sent) + 1, src |-> s, dst |-> d])
            /\ ScheduleProcess(0, "pmq")
            /\ last' = "send_ok"
  /\ UNCHANGED <<now, pc, cur, runUntil, nrun, ues, log, nfail, nodes, recv>>
  /\ UNCHANGED extVars

\* a delivery loop that calls the endpoint's handler without testing the
\* endpoint and outside any try: an endpoint that is None ends the pass with
\* an AttributeError, which event_wrapper catches
F1PmqDeliverUnguarded ==
  /\ pc = "pmq"
  /\ mq # <<>>
  /\ LET m == Head(mq) IN
       /\ mq' = Tail(mq)
       /\ recv' = Append(recv, [msg |-> m.msg, src |-> m.src, dst |-> m.dst,
                                handle |-> f1ep[m.dst], reg |-> f1ep,
                                time |-> now, pass |-> cur,
                                out |-> IF f1ep[m.dst] = "none"
                                          THEN "keyerror" ELSE "running",
                                rest |-> IF f1ep[m.dst] = "none"
                                           THEN Tail(mq) ELSE <<>>])
       /\ pc' = IF f1ep[m.dst] = "none" THEN "run" ELSE "handler"
       /\ cur' = IF f1ep[m.dst] = "none" THEN 0 ELSE cur
       /\ log' = IF f1ep[m.dst] = "none"
                   THEN [log EXCEPT ![Len(log)].out = "raised"] ELSE log
       /\ last' = IF f1ep[m.dst] = "none" THEN "cb_raised" ELSE "deliver"
       /\ queue' = IF f1ep[m.dst] = "none" THEN queue \cup {ProcessEnd(cur)}
                                            ELSE queue
       /\ eid' = IF f1ep[m.dst] = "none" THEN eid + 1 ELSE eid
  /\ UNCHANGED <<now, runUntil, nrun, ues, calls, nfail, nodes, sent>>
  /\ UNCHANGED extVars

\* _process_message_queue, one turn of its loop: queue.get, then the
\* if/elif chain: the handler of the endpoint named by dest_node is called
\* if that endpoint is set; if it is not, the else branch logs an error and
\* nothing is called
F1PmqDeliver ==
  /\ pc = "pmq"
  /\ mq # <<>>
  /\ LET m == Head(mq) IN
       /\ mq' = Tail(mq)
       /\ recv' = Append(recv, [msg |-> m.msg, src |-> m.src, dst |-> m.dst,
                                handle |-> f1ep[m.dst], reg |-> f1ep,
                                time |-> now, pass |-> cur,
                                out |-> IF f1ep[m.dst] = "none"
                                          THEN "keyerror" ELSE "running",
                                rest |-> IF f1ep[m.dst] = "none"
                                           THEN Tail(mq) ELSE <<>>])
       /\ pc' = IF f1ep[m.dst] = "none" THEN "pmq" ELSE "handler"
       /\ last' = IF f1ep[m.dst] = "none" THEN "deliver_unset" ELSE "deliver"
  /\ UNCHANGED <<now, queue, eid, cur, runUntil, nrun, ues, calls, log, nfail,
                 nodes, sent>>
  /\ UNCHANGED extVars

\* ------------------------------------------------- E2 publish/subscribe
E2SubIds == {"x", "y"}     \* subscriber ids
E2Callbacks == {"k1"}      \* callbacks passed to subscribe
E2NodeIds == {"du1"}       \* node ids passed to send_message, send_indication

\* no fan-out in progress
NoFan == [on |-> FALSE, pos |-> 0, used |-> 0, msg |-> 0, via |-> "none"]

\* dict operations on a sequence of items in insertion order
DictKeys(d) == {d[i].id : i \in 1..Len(d)}
\* d[id] = cb: a new key goes last, a key already there keeps its place
DictSet(d, id, cb) ==
  IF id \in DictKeys(d)
    THEN [i \in 1..Len(d) |-> IF d[i].id = id THEN [id |-> id, cb |-> cb]
                                              ELSE d[i]]
    ELSE Append(d, [id |-> id, cb |-> cb])
\* del d[id]
DictDel(d, id) == SelectSeq(d, LAMBDA e : e.id # id)

\* subscribe(subscriber_id, callback) with a str id and a callable (anything
\* else is a TypeError that changes nothing):
\* self.e2_subscribers[subscriber_id] = callback
E2Subscribe(id, cb) ==
  /\ pc = "idle"
  /\ subs' = DictSet(subs, id, cb)
  /\ last' = "subscribe"
  /\ UNCHANGED <<schedVars, calls, routerVars, f1ep, fan, fh, ricVars>>
  /\ UNCHANGED moreVars

\* unsubscribe(subscriber_id): del if present, else a warning
E2Unsubscribe(id) ==
  /\ pc = "idle"
  /\ subs' = DictDel(subs, id)
  /\ last' = IF id \in DictKeys(subs) THEN "unsubscribe_ok"
                                       ELSE "unsubscribe_missing"
  /\ UNCHANGED <<schedVars, calls, routerVars, f1ep, fan, fh, ricVars>>
  /\ UNCHANGED moreVars

\* send_message(message, node_id): queue.put and add_event(0,
\* self._process_message_queue); the subscribers are not looked at.  sent
\* notes who was subscribed at the call
E2SendMessage(n) ==
  /\ pc = "idle"
  /\ Len(sent) < MaxPublish
  /\ sent' = Append(sent, [via |-> "msg", node |-> n, at |-> now,
                           subsAt |-> DictKeys(subs), begin |-> {},
                           state |-> "queued"])
  /\ mq' = Append(mq, [msg |-> Len(sent) + 1, node |-> n])
  /\ ScheduleProcess(0, "pmq")
  /\ last' = "send_ok"
  /\ UNCHANGED <<now, pc, cur, runUntil, nrun, ues, log, nfail, nodes, recv>>
  /\ UNCHANGED extVars

\* send_indication(message, du_id): the for loop over
\* self.e2_subscribers.items() starts in the caller's own call
E2SendIndication(n) ==
  /\ pc = "idle"
  /\ Len(sent) < MaxPublish
  /\ sent' = Append(sent, [via |-> "ind", node |-> n, at |-> now,
                           subsAt |-> DictKeys(subs),
                           begin |-> DictKeys(subs), state |-> "running"])
  /\ fan' = [on |-> TRUE, pos |-> 0, used |-> Len(subs),
             msg |-> Len(sent) + 1, via |-> "ind"]
  /\ pc' = "fan"
  /\ last' = "indication"
  /\ UNCHANGED <<now, queue, eid, cur, runUntil, nrun, ues, calls, log, nfail,
                 nodes, mq, recv, f1ep, subs, fh, ricVars>>
  /\ UNCHANGED moreVars

\* _process_message_queue, the head of one turn of its while loop:
\* queue.get, then the for loop over self.e2_subscribers.items() starts
E2PmqGet ==
  /\ pc = "pmq"
  /\ mq # <<>>
  /\ LET m == Head(mq) IN
       /\ mq' = Tail(mq)
       /\ sent' = [sent EXCEPT ![m.msg].begin = DictKeys(subs),
                               ![m.msg].state = "running"]
       /\ fan' = [on |-> TRUE, pos |-> 0, used |-> Len(subs),
                  msg |-> m.msg, via |-> "pmq"]
  /\ pc' = "fan"
  /\ last' = "dequeue"
  /\ UNCHANGED <<now, queue, eid, cur, runUntil, nrun, ues, calls, log, nfail,
                 nodes, recv, f1ep, subs, fh, ricVars>>
  /\ UNCHANGED moreVars

\* the dict iterator's next() finds the size it started with and another
\* item: the item's callback is called with the message
FanCall ==
  /\ pc = "fan"
  /\ Len(subs) = fan.used
  /\ fan.pos < Len(subs)
  /\ recv' = Append(recv, [msg |-> fan.msg, sub |-> subs[fan.pos + 1].id,
                           cb |-> subs[fan.pos + 1].cb, time |-> now,
                           out |-> "running", arg |-> "none"])
  /\ fan' = [fan EXCEPT !.pos = @ + 1]
  /\ pc' = "sub"
  /\ last' = "fan_call"
  /\ UNCHANGED <<now, queue, eid, cur, runUntil, nrun, ues, calls, log, nfail,
                 nodes, mq, sent, f1ep, subs, fh, ricVars>>
  /\ UNCHANGED moreVars

\* next() finds the size it started with and no more items: the for loop
\* ends; _process_message_queue goes back to its while test, send_indication
\* returns
FanEnd ==
  /\ pc = "fan"
  /\ Len(subs) = fan.used
  /\ fan.pos = Len(subs)
  /\ sent' = [sent EXCEPT ![fan.msg].state = "done"]
  /\ pc' = IF fan.via = "pmq" THEN "pmq" ELSE "idle"
  /\ last' = IF fan.via = "pmq" THEN "fan_done" ELSE "indication_returned"
  /\ fan' = NoFan
  /\ UNCHANGED <<now, queue, eid, cur, runUntil, nrun, ues, calls, log, nfail,
                 nodes, mq, recv, f1ep, subs, fh, ricVars>>
  /\ UNCHANGED moreVars

\* next() finds that the dict has another size than at the start of the
\* loop: RuntimeError, raised by the for statement, outside the try.  It
\* leaves _process_message_queue, where event_wrapper catches it, or leaves
\* send_indication to its caller
FanError ==
  /\ pc = "fan"
  /\ Len(subs) # fan.used
  /\ sent' = [sent EXCEPT ![fan.msg].state = "error"]
  /\ IF fan.via = "pmq"
       THEN /\ log' = [log EXCEPT ![Len(log)].out = "raised"]
            /\ queue' = queue \cup {ProcessEnd(cur)}
            /\ eid' = eid + 1
            /\ pc' = "run"
            /\ cur' = 0
            /\ last' = "cb_raised"
       ELSE /\ pc' = "idle"
            /\ last' = "indication_raised"
            /\ UNCHANGED <<log, cur, queue, eid>>
  /\ fan' = NoFan
  /\ UNCHANGED <<now, runUntil, nrun, ues, calls, nfail,
                 nodes, mq, recv, f1ep, subs, fh, ricVars>>
  /\ UNCHANGED moreVars

\* a fan-out without the try around the callback: what the callback raises
\* ends the loop like the iterator's error does
SubReturnEscapes(outcome) ==
  /\ pc = "sub"
  /\ recv' = [recv EXCEPT ![Len(recv)].out = outcome]
  /\ IF outcome = "ok"
       THEN /\ pc' = "fan"
            /\ last' = "sub_ok"
            /\ UNCHANGED <<log, cur, fan, sent, queue, eid>>
       ELSE /\ sent' = [sent EXCEPT ![fan.msg].state = "error"]
            /\ fan' = NoFan
            /\ IF fan.via = "pmq"
                 THEN /\ log' = [log EXCEPT ![Len(log)].out = "raised"]
                      /\ queue' = queue \cup {ProcessEnd(cur)}
                      /\ eid' = eid + 1
                      /\ pc' = "run"
                      /\ cur' = 0
                      /\ last' = "cb_raised"
                 ELSE /\ pc' = "idle"
                      /\ last' = "indication_raised"
                      /\ UNCHANGED <<log, cur, queue, eid>>
  /\ UNCHANGED <<now, runUntil, nrun, ues, calls, nfail,
                 nodes, mq, f1ep, subs, fh, ricVars>>
  /\ UNCHANGED moreVars

\* the subscriber's callback returns or raises; `except Exception` logs the
\* error and the for loop goes on
SubReturn(outcome) ==
  /\ pc = "sub"
  /\ recv' = [recv EXCEPT ![Len(recv)].out = outcome]
  /\ pc' = "fan"
  /\ last' = IF outcome = "ok" THEN "sub_ok" ELSE "sub_raised"
  /\ UNCHANGED <<now, queue, eid, cur, runUntil, nrun, ues, calls, log, nfail,
                 nodes, mq, sent, f1ep, subs, fan, fh, ricVars>>
  /\ UNCHANGED moreVars

\* the subscriber's callback calls unsubscribe(id) or subscribe(id, cb) on
\* the interface that is calling it, then returns
SubMutate(op, id) ==
  /\ pc = "sub"
  /\ subs' = IF op = "unsubscribe" THEN DictDel(subs, id)
                                   ELSE DictSet(subs, id, recv[Len(recv)].cb)
  /\ recv' = [recv EXCEPT ![Len(recv)].out = op, ![Len(recv)].arg = id]
  /\ pc' = "fan"
  /\ last' = "sub_ok"
  /\ UNCHANGED <<now, queue, eid, cur, runUntil, nrun, ues, calls, log, nfail,
                 nodes, mq, sent, f1ep, fan, fh, ricVars>>
  /\ UNCHANGED moreVars

\* ------------------------------------------------------- open fronthaul
\* max(0, latency + jitter) of _calculate_latency, for the sum x of the two
\* normal samples, without the floor
CalculateLatencyNoFloor(x) == x

\* max(0, latency + jitter) of _calculate_latency, for the sum x of the two
\* normal samples
CalculateLatency(x) == IF x > 0 THEN x ELSE 0

\* set_o_ru, set_o_du
FhSetEndpoint(which, h) ==
  /\ pc = "idle"
  /\ fh' = [fh EXCEPT ![which] = h]
  /\ last' = "set_endpoint"
  /\ UNCHANGED <<schedVars, calls, routerVars, f1ep, e2Vars, ricVars>>
  /\ UNCHANGED moreVars

\* transmit_iq_data(iq_data, o_ru, o_du), x being what the two normal
\* samples add up to: ValueError unless the two are the bound ones, else
\* add_event(latency, self.o_du.receive_iq_data, iq_data); with no O-DU bound
\* (None passed and None bound) the attribute lookup on None raises before
\* add_event is called, and add_event raises for a negative delay.  The log
\* line that follows add_event reads o_ru.config: with no O-RU bound (None
\* passed and None bound) it raises AttributeError after the event has been
\* scheduled
TransmitIqData(ru, du, x) ==
  /\ pc = "idle"
  /\ IF ru # fh.o_ru \/ du # fh.o_du
       THEN /\ last' = "transmit_error"
            /\ UNCHANGED <<sent, calls, queue, eid>>
       ELSE IF fh.o_du = "none"
         THEN /\ last' = "transmit_attribute_error"
              /\ UNCHANGED <<sent, calls, queue, eid>>
         ELSE IF CalculateLatency(x) < 0
           THEN /\ last' = "add_event_error"
                /\ UNCHANGED <<sent, calls, queue, eid>>
           ELSE /\ Len(calls) < MaxCalls
                /\ sent' = Append(sent, [ru |-> ru, du |-> du, at |-> now,
                                         sample |-> x,
                                         latency |-> CalculateLatency(x),
                                         call |-> Len(calls) + 1])
                /\ ScheduleProcess(CalculateLatency(x), "iq")
                /\ last' = IF ru = "none" THEN "transmit_raised_scheduled"
                                          ELSE "transmit_ok"
  /\ UNCHANGED <<now, pc, cur, runUntil, nrun, ues, log, nfail, nodes, mq,
                 recv>>
  /\ UNCHANGED extVars

\* --------------------------------------------------- Near-RT RIC and A1
PolicyIds == {"", "p1", "p2"}           \* policy_id values
\* what a policy dict looks like to A1Policy(**policy_dict): "ok" has every
\* required field with a value of its type (policy_id and target any str);
\* "missing" lacks one or has one of another type
DictShapes == {"ok", "missing"}
E2NodeNames == {"n1", "n2"}                 \* node_id values
NodeClasses == {"O_DU", "O_RU"}             \* node.__class__.__name__

\* A1Policy(**policy_dict): pydantic checks that the fields are there and
\* of their types, nothing about the values of policy_id and target
A1PolicyValidates(d) == d.shape = "ok"

\* self.a1_policies[policy.policy_id] = policy that keeps an entry already
\* stored under the id
StoreA1PolicyKeepFirst(d, pol) ==
  IF \E i \in 1..Len(d) : d[i].id = pol.id
    THEN d
    ELSE Append(d, pol)

\* store_a1_policy: self.a1_policies[policy.policy_id] = policy; a new id
\* goes last in the dict, an id already there keeps its place and gets the
\* new policy
StoreA1Policy(d, pol) ==
  IF \E i \in 1..Len(d) : d[i].id = pol.id
    THEN [i \in 1..Len(d) |-> IF d[i].id = pol.id THEN pol ELSE d[i]]
    ELSE Append(d, pol)

\* the class name a target is applied to (ric.py:59-67)
TargetClass(t) ==
  IF t = "o_du" THEN "O_DU" ELSE IF t = "o_ru" THEN "O_RU" ELSE "none"

\* the two inner loops of enforce_a1_policies for one policy: the (policy,
\* node) pairs logged as applied, in the order of e2_nodes
AppliedFor(pol, ns) ==
  LET m == SelectSeq(ns, LAMBDA n : n.class = TargetClass(pol.target))
  IN [i \in 1..Len(m) |-> [policy |-> pol.id, node |-> m[i].id,
                           class |-> m[i].class]]

\* enforce_a1_policies: the outer loop over a1_policies.values()
RECURSIVE EnforcePairs(_, _)
EnforcePairs(ps, ns) ==
  IF ps = <<>> THEN <<>>
  ELSE AppliedFor(Head(ps), ns) \o EnforcePairs(Tail(ps), ns)

\* register_e2_node(node_id, node): self.e2_nodes[node_id] = node
RegisterE2Node(id, class) ==
  /\ pc = "idle"
  /\ e2nodes' =
       IF \E i \in 1..Len(e2nodes) : e2nodes[i].id = id
         THEN [i \in 1..Len(e2nodes) |->
                 IF e2nodes[i].id = id THEN [id |-> id, class |-> class]
                                       ELSE e2nodes[i]]
         ELSE Append(e2nodes, [id |-> id, class |-> class])
  /\ last' = "register_e2_node"
  /\ UNCHANGED <<schedVars, calls, routerVars, f1ep, e2Vars, fh, policies,
                 applied>>
  /\ UNCHANGED moreVars

\* receive_a1_policy(policy_dict): A1Policy(**policy_dict) in a try; on any
\* exception log and return, else store_a1_policy(policy)
ReceiveA1Policy(d) ==
  /\ pc = "idle"
  /\ Len(sent) < MaxPolicies
  /\ sent' = Append(sent, [dict |-> d, via |-> "receive",
                           stored |-> A1PolicyValidates(d)])
  /\ policies' = IF A1PolicyValidates(d)
                   THEN StoreA1Policy(policies, [id |-> d.id,
                                                 target |-> d.target,
                                                 seq |-> Len(sent) + 1])
                   ELSE policies
  /\ last' = IF A1PolicyValidates(d) THEN "policy_stored"
                                     ELSE "policy_discarded"
  /\ UNCHANGED <<schedVars, calls, nodes, mq, recv, f1ep, e2Vars, fh,
                 e2nodes, applied>>
  /\ UNCHANGED moreVars

\* NonRTRIC.send_a1_policy -> A1Interface.send_policy(policy, near_rt_ric):
\* ValueError for another Near-RT RIC than the interface's; else
\* receive_a1_policy(policy.model_dump()) in a try.  The policy is an
\* A1Policy, so its dict has every field
SendA1Policy(d, ric) ==
  /\ pc = "idle"
  /\ d.shape = "ok"
  /\ IF ric # "near_rt_ric"
       THEN /\ last' = "send_policy_error"
            /\ UNCHANGED <<sent, policies>>
       ELSE /\ Len(sent) < MaxPolicies
            /\ sent' = Append(sent, [dict |-> d, via |-> "send",
                                     stored |-> A1PolicyValidates(d)])
            /\ policies' = IF A1PolicyValidates(d)
                             THEN StoreA1Policy(policies,
                                    [id |-> d.id, target |-> d.target,
                                     seq |-> Len(sent) + 1])
                             ELSE policies
            /\ last' = "policy_sent"
  /\ UNCHANGED <<schedVars, calls, nodes, mq, recv, f1ep, e2Vars, fh,
                 e2nodes, applied>>
  /\ UNCHANGED moreVars

\* an enforcement that drops each policy it has applied
EnforceA1PoliciesOnce ==
  /\ pc = "idle"
  /\ Len(applied) < MaxEnforce
  /\ applied' = Append(applied, [pairs |-> EnforcePairs(policies, e2nodes),
                                 invoked |-> <<>>,
                                 store |-> policies, registry |-> e2nodes])
  /\ policies' = SelectSeq(policies, LAMBDA pol : AppliedFor(pol, e2nodes) = <<>>)
  /\ last' = "enforced"
  /\ UNCHANGED <<schedVars, calls, routerVars, f1ep, e2Vars, fh, e2nodes>>
  /\ UNCHANGED moreVars

\* enforce_a1_policies: for every policy, for every node of the class the
\* target names, a log line "Applying policy ..."; no method of a node is
\* called (`invoked` stays empty) and nothing is assigned
EnforceA1Policies ==
  /\ pc = "idle"
  /\ Len(applied) < MaxEnforce
  /\ applied' = Append(applied, [pairs |-> EnforcePairs(policies, e2nodes),
                                 invoked |-> <<>>,
                                 store |-> policies, registry |-> e2nodes])
  /\ last' = "enforced"
  /\ UNCHANGED <<schedVars, calls, routerVars, f1ep, e2Vars, fh, policies,
                 e2nodes>>
  /\ UNCHANGED moreVars

\* ------------------------------------------------- Non-RT RIC and rApp
\* the Near-RT RICs there are: the one the A1 interface is built with
\* ("near_rt_ric") and another one
RicNames == {"near_rt_ric", "other_ric"}
FirstVersion == "1.0"                       \* A1Policy.version's default

\* f"policy-{n}"
PolicyIdOf(n) ==
  CASE n = 1 -> "policy-1"
    [] n = 2 -> "policy-2"
    [] n = 3 -> "policy-3"
    [] n = 4 -> "policy-4"
    [] OTHER -> "policy-5"

\* the A1Policy objects made by create_a1_policy (of the Non-RT RIC or of
\* the rApp), which their callers hold
Created == {o \in 1..Len(heap) : heap[o].by # "near"}

\* A1Policy(policy_type=..., policy_id=..., policy_content=..., target=...)
NewPolicy(id, content, target, by) ==
  [id |-> id, content |-> content, target |-> target,
   version |-> FirstVersion, by |-> by, updated |-> FALSE]

\* NonRTRIC.add_managed_near_rt_ric(near_rt_ric): append, whether or not
\* the list already has it
AddManagedNearRtRic(r) ==
  /\ pc = "idle"
  /\ Len(managed) < MaxManaged
  /\ managed' = Append(managed, r)
  /\ last' = "managed_added"
  /\ UNCHANGED <<schedVars, calls, routerVars, f1ep, e2Vars, fh, ricVars,
                 heap, rapp, xapps, mobVars>>

\* NonRTRIC.create_a1_policy(policy_type, policy_content, target): the id
\* is made from the number of policies the Near-RT RIC of the A1 interface
\* holds at the call
CreateA1Policy(content, target) ==
  /\ pc = "idle"
  /\ Cardinality(Created) < MaxObjects
  /\ heap' = Append(heap, NewPolicy(PolicyIdOf(Len(policies) + 1), content,
                                    target, "nonrt"))
  /\ last' = "policy_created"
  /\ UNCHANGED <<schedVars, calls, routerVars, f1ep, e2Vars, fh, ricVars,
                 managed, rapp, xapps, mobVars>>

\* a send that hands the Near-RT RIC the sender's own object
StoredObjectShared(o) == o

\* policy.model_dump() makes a dict of the policy's fields and
\* A1Policy(**policy_dict) makes an object from it: what the Near-RT RIC
\* stores is a new object, the next one of the heap
StoredObject(o) == Len(heap) + 1

\* A1Interface.send_policy(policy, near_rt_ric) called with object o, from
\* caller `via`: ValueError for another Near-RT RIC than the interface's;
\* else receive_a1_policy(policy.model_dump()), which validates (an
\* A1Policy's own dict always does) and stores
A1SendPolicy(o, r, via) ==
  IF r # "near_rt_ric"
    THEN /\ last' = "send_policy_error"
         /\ UNCHANGED <<sent, policies, heap>>
    ELSE /\ Len(sent) < MaxPolicies
         /\ sent' = Append(sent, [dict |-> [shape |-> "ok", id |-> heap[o].id,
                                            target |-> heap[o].target,
                                            content |-> heap[o].content,
                                            version |-> heap[o].version],
                                  via |-> via, stored |-> TRUE, obj |-> o,
                                  ric |-> r, managedAt |-> managed])
         /\ heap' = Append(heap, [heap[o] EXCEPT !.by = "near",
                                                 !.updated = FALSE])
         /\ policies' = StoreA1Policy(policies,
                          [id |-> heap[o].id, target |-> heap[o].target,
                           seq |-> Len(sent) + 1, obj |-> StoredObject(o)])
         /\ last' = "policy_sent"

\* NonRTRIC.send_a1_policy(policy, near_rt_ric):
\* self.a1_interface.send_policy(policy, near_rt_ric); the list of managed
\* Near-RT RICs is not looked at
NonRtSendA1Policy(o, r) ==
  /\ pc = "idle"
  /\ o \in Created
  /\ A1SendPolicy(o, r, "nonrt")
  /\ UNCHANGED <<schedVars, calls, nodes, mq, recv, f1ep, e2Vars, fh,
                 e2nodes, applied, managed, rapp, xapps, mobVars>>

\* NearRTRIC.store_a1_policy(policy) called by code that holds the A1Policy
\* object o: self.a1_policies[policy.policy_id] = policy; nothing is
\* validated and nothing is copied, the store holds the caller's own object.
\* sent notes the call and the fields the object had at the call
StoreA1PolicyCall(o) ==
  /\ pc = "idle"
  /\ o \in Created
  /\ Len(sent) < MaxPolicies
  /\ sent' = Append(sent, [dict |-> [shape |-> "ok", id |-> heap[o].id,
                                     target |-> heap[o].target,
                                     content |-> heap[o].content,
                                     version |-> heap[o].version],
                           via |-> "store", stored |-> TRUE, obj |-> o,
                           ric |-> "near_rt_ric", managedAt |-> managed])
  /\ policies' = StoreA1Policy(policies,
                   [id |-> heap[o].id, target |-> heap[o].target,
                    seq |-> Len(sent) + 1, obj |-> o])
  /\ last' = "policy_stored"
  /\ UNCHANGED <<schedVars, calls, nodes, mq, recv, f1ep, e2Vars, fh,
                 e2nodes, applied, managed, heap, rapp, xapps, mobVars>>

\* RApp.policies as a dict
RAppIds == {rapp[i].id : i \in 1..Len(rapp)}
\* the place of the item with key id
RAppItem(id) == CHOOSE i \in 1..Len(rapp) : rapp[i].id = id

\* RApp.create_a1_policy: the id is made from the number of policies the
\* rApp holds at the call; self.policies[policy_id] = policy
RAppCreateA1Policy(content, target) ==
  /\ pc = "idle"
  /\ Cardinality(Created) < MaxObjects
  /\ LET id == PolicyIdOf(Len(rapp) + 1)
         it == [id |-> id, obj |-> Len(heap) + 1]
     IN /\ heap' = Append(heap, NewPolicy(id, content, target, "rapp"))
        /\ rapp' = IF id \in RAppIds
                     THEN [i \in 1..Len(rapp) |->
                             IF rapp[i].id = id THEN it ELSE rapp[i]]
                     ELSE Append(rapp, it)
  /\ last' = "policy_created"
  /\ UNCHANGED <<schedVars, calls, routerVars, f1ep, e2Vars, fh, ricVars,
                 managed, xapps, mobVars>>

\* RApp.send_a1_policy(policy_id, near_rt_ric_id): KeyError for an id the
\* rApp does not hold, ValueError if no managed Near-RT RIC has the id, else
\* a1_interface.send_policy(policy, near_rt_ric)
RAppSendA1Policy(id, r) ==
  /\ pc = "idle"
  /\ IF id \notin RAppIds
       THEN /\ last' = "rapp_key_error"
            /\ UNCHANGED <<sent, policies, heap>>
       ELSE IF \A i \in 1..Len(managed) : managed[i] # r
         THEN /\ last' = "rapp_ric_not_found"
              /\ UNCHANGED <<sent, policies, heap>>
         ELSE A1SendPolicy(rapp[RAppItem(id)].obj, r, "rapp")
  /\ UNCHANGED <<schedVars, calls, nodes, mq, recv, f1ep, e2Vars, fh,
                 e2nodes, applied, managed, rapp, xapps, mobVars>>

\* RApp.update_a1_policy(policy_id, new_policy_content): KeyError for an id
\* the rApp does not hold, else self.policies[policy_id].policy_content =
\* new_policy_content; no other field of the policy is assigned.  `updated`
\* notes that the object was updated
RAppUpdateA1Policy(id, content) ==
  /\ pc = "idle"
  /\ IF id \notin RAppIds
       THEN /\ last' = "rapp_key_error"
            /\ UNCHANGED heap
       ELSE LET o == rapp[RAppItem(id)].obj IN
              /\ heap' = [heap EXCEPT ![o].content = content,
                                      ![o].updated = TRUE]
              /\ last' = "policy_updated"
  /\ UNCHANGED <<schedVars, calls, routerVars, f1ep, e2Vars, fh, ricVars,
                 managed, rapp, xapps, mobVars>>

\* RApp.delete_a1_policy(policy_id): KeyError for an id the rApp does not
\* hold, else del self.policies[policy_id]
RAppDeleteA1Policy(id) ==
  /\ pc = "idle"
  /\ IF id \notin RAppIds
       THEN /\ last' = "rapp_key_error"
            /\ UNCHANGED rapp
       ELSE /\ rapp' = SelectSeq(rapp, LAMBDA it : it.id # id)
            /\ last' = "policy_deleted"
  /\ UNCHANGED <<schedVars, calls, routerVars, f1ep, e2Vars, fh, ricVars,
                 managed, heap, xapps, mobVars>>

\* --------------------------------------------- load-balancing rApp
MonitorDelay == Sec(5)     \* add_event(5, self.monitor_o_du_load)
\* the keys of o_du_loads, in the order of the dict
MonitoredDus == <<"o_du_1", "o_du_2", "o_du_3">>

\* what overloaded_odus can be with the default load_threshold 0.8: the
\* keys whose load is above it, in the order of the dict; the load of
\* o_du_2 is drawn from [0.3, 0.7] and never is
OverLists == {<<>>, <<"o_du_1">>, <<"o_du_3">>, <<"o_du_1", "o_du_3">>}

\* what a monitoring pass finds when it builds o_du_loads: the module calls
\* random.uniform without importing random, so the name is unbound unless
\* the runtime supplies it (bound); with it, the list of the overloaded DUs
LoadDraws ==
  {[bound |-> FALSE, over |-> <<>>]} \cup
  {[bound |-> TRUE, over |-> l] : l \in OverLists}

\* `du_id in near_rt_ric.e2_nodes` for managed Near-RT RIC r: the registry
\* of the A1 interface's Near-RT RIC is e2nodes; for another Near-RT RIC it
\* is the input otherHas, the DUs that one has
HasDu(r, du, otherHas) ==
  IF r = "near_rt_ric"
    THEN \E i \in 1..Len(e2nodes) : e2nodes[i].id = du
    ELSE du \in otherHas

\* the inner for loop of initiate_load_balancing: the index of the first
\* managed Near-RT RIC that has the DU, 0 if none has it
FirstOwner(du, otherHas) ==
  IF \E i \in 1..Len(managed) : HasDu(managed[i], du, otherHas)
    THEN CHOOSE i \in 1..Len(managed) :
           /\ HasDu(managed[i], du, otherHas)
           /\ \A j \in 1..(i - 1) : ~HasDu(managed[j], du, otherHas)
    ELSE 0

\* initiate_load_balancing, the for loop over overloaded_odus from state st
\* (the objects made, the rApp's policies, the policies sent, the Near-RT
\* RIC's store): for each DU create_a1_policy, then send_a1_policy to the
\* first managed Near-RT RIC that has the DU, which raises ValueError in
\* A1Interface.send_policy if that is not the interface's Near-RT RIC and
\* ends the loop
RECURSIVE InitiateLoadBalancing(_, _, _)
InitiateLoadBalancing(over, st, otherHas) ==
  IF over = <<>> THEN st
  ELSE
    LET du == Head(over)
        id == PolicyIdOf(Len(st.rapp) + 1)
        o == Len(st.heap) + 1
        made == NewPolicy(id, "steer_traffic", "o_du", "rapp")
        it == [id |-> id, obj |-> o]
        created ==
          [st EXCEPT !.heap = Append(@, made),
                     !.rapp = IF \E j \in 1..Len(@) : @[j].id = id
                                THEN [j \in 1..Len(@) |->
                                        IF @[j].id = id THEN it ELSE @[j]]
                                ELSE Append(@, it)]
        i == FirstOwner(du, otherHas)
    IN IF i = 0
         THEN InitiateLoadBalancing(Tail(over), created, otherHas)
         ELSE IF managed[i] # "near_rt_ric"
           THEN [created EXCEPT !.raised = TRUE]
           ELSE InitiateLoadBalancing(Tail(over),
                  [created EXCEPT
                     !.heap = Append(@, [made EXCEPT !.by = "near"]),
                     !.sent = Append(@,
                                [dict |-> [shape |-> "ok", id |-> id,
                                           target |-> made.target,
                                           content |-> made.content,
                                           version |-> made.version],
                                 via |-> "rapp", stored |-> TRUE, obj |-> o,
                                 ric |-> managed[i], managedAt |-> managed]),
                     !.policies = StoreA1Policy(@,
                                    [id |-> id, target |-> made.target,
                                     seq |-> Len(st.sent) + 1,
                                     obj |-> o + 1])],
                  otherHas)

\* LoadBalancingRApp.register(): RApp.register(), then
\* add_event(5, self.monitor_o_du_load)
LbRegister ==
  /\ pc = "idle"
  /\ ScheduleProcess(MonitorDelay, "monitor")
  /\ last' = "rapp_registered"
  /\ UNCHANGED <<now, pc, cur, runUntil, nrun, ues, log, nfail, routerVars>>
  /\ UNCHANGED extVars

\* the end of a monitoring pass that ran to its last statement: the pass
\* schedules the next one (add_event, as ScheduleProcess does it) and
\* returns to event_wrapper, whose process ends
PassReschedules ==
  /\ calls' = Append(calls, [delay |-> MonitorDelay, at |-> now,
                             kind |-> "monitor", run |-> CallerRun])
  /\ queue' = queue \cup
                {Entry(now, URGENT, eid, "init", Len(calls) + 1, MonitorDelay),
                 Entry(now, NORMAL, eid + 1, "end", cur, 0)}
  /\ eid' = eid + 2
  /\ log' = [log EXCEPT ![Len(log)].out = "ok"]

\* the end of a monitoring pass that raised: event_wrapper's except logs
\* the error and its process ends; the statements after the raise were not
\* executed
PassRaises ==
  /\ log' = [log EXCEPT ![Len(log)].out = "raise"]
  /\ queue' = queue \cup {ProcessEnd(cur)}
  /\ eid' = eid + 1
  /\ UNCHANGED calls

\* monitor_o_du_load, called by event_wrapper: build o_du_loads, which
\* raises NameError if random is unbound; if a DU is over the threshold,
\* initiate_load_balancing; then, as the last statement of the pass,
\* add_event(5, self.monitor_o_du_load)
MonitorODuLoad(draw, otherHas) ==
  /\ pc = "cb"
  /\ calls[cur].kind = "monitor"
  /\ LET st == InitiateLoadBalancing(draw.over,
                 [heap |-> heap, rapp |-> rapp, sent |-> sent,
                  policies |-> policies, raised |-> FALSE], otherHas)
     IN /\ Cardinality({o \in 1..Len(st.heap) : st.heap[o].by # "near"})
             <= MaxObjects
        /\ Len(st.sent) <= MaxPolicies
        /\ heap' = st.heap
        /\ rapp' = st.rapp
        /\ sent' = st.sent
        /\ policies' = st.policies
        /\ IF ~draw.bound \/ st.raised
             THEN PassRaises /\ last' = "monitor_raised"
             ELSE /\ PassReschedules
                  /\ last' = IF draw.over = <<>> THEN "monitor_quiet"
                             ELSE IF st.sent = sent THEN "monitor_no_ric"
                             ELSE "monitor_balanced"
  /\ pc' = "run"
  /\ cur' = 0
  /\ UNCHANGED <<now, runUntil, nrun, ues, nfail, nodes, mq, recv, f1ep,
                 e2Vars, fh, e2nodes, applied, managed, xapps, mobVars>>

\* ---------------------------------------------- xApps of the Near-RT RIC
XappObjects == {"k1", "k2"}     \* xApp objects; each has its receive_indication
\* an xapp_id that is not a str: XApp.__init__ keeps whatever it is given
NonStrId == "int 1"
\* the xapp_id values of the xApps the driver makes
XappIds == E2SubIds \cup {NonStrId}
\* isinstance(subscriber_id, str)
IsStr(id) == id # NonStrId
\* the add_xapp calls the driver makes: two xApp objects with the id "x",
\* one with the id "y", one with the id that is not a str
XappAdds == {a \in XappIds \X XappObjects : a[1] = "x" \/ a[2] = "k2"}

\* NearRTRIC.add_xapp(xapp): self.xapps[xapp.xapp_id] = xapp, then
\* e2_interface.subscribe(xapp.xapp_id, xapp.receive_indication), which
\* raises TypeError for an id that is not a str and else assigns
\* e2_subscribers[id]; the TypeError leaves add_xapp with the xApp stored
\* and not subscribed.  receive_indication is a method, so it is callable
AddXapp(id, x) ==
  /\ pc = "idle"
  /\ xapps' = DictSet(xapps, id, x)
  /\ subs' = IF IsStr(id) THEN DictSet(subs, id, x) ELSE subs
  /\ last' = IF IsStr(id) THEN "xapp_added" ELSE "xapp_type_error"
  /\ UNCHANGED <<schedVars, calls, routerVars, f1ep, fan, fh, ricVars,
                 nonRtVars, mobVars>>

\* NearRTRIC.remove_xapp(xapp_id): for an id in self.xapps, del and
\* e2_interface.unsubscribe(xapp_id); else a warning
RemoveXapp(id) ==
  /\ pc = "idle"
  /\ xapps' = DictDel(xapps, id)
  /\ subs' = IF id \in DictKeys(xapps) THEN DictDel(subs, id) ELSE subs
  /\ last' = IF id \in DictKeys(xapps) THEN "xapp_removed" ELSE "xapp_missing"
  /\ UNCHANGED <<schedVars, calls, routerVars, f1ep, fan, fh, ricVars,
                 nonRtVars, mobVars>>

\* the xApp's receive_indication calls its own unregister (xapp.py:42-47),
\* which is near_rt_ric.remove_xapp(self.xapp_id), then returns
SubUnregister ==
  /\ pc = "sub"
  /\ LET id == recv[Len(recv)].sub IN
       /\ xapps' = DictDel(xapps, id)
       /\ subs' = IF id \in DictKeys(xapps) THEN DictDel(subs, id) ELSE subs
       /\ recv' = [recv EXCEPT ![Len(recv)].out = "unsubscribe",
                               ![Len(recv)].arg = id]
  /\ pc' = "fan"
  /\ last' = "sub_ok"
  /\ UNCHANGED <<now, queue, eid, cur, runUntil, nrun, ues, calls, log, nfail,
                 nodes, mq, sent, f1ep, fan, fh, ricVars, nonRtVars, mobVars>>

\* ------------------------------------------------------------- mobility
\* A position is a point of the plane, kept exactly: the point that lies
\* `gone` metres from the lattice point `at` on the straight line to the
\* lattice point `to`, short of `to`.  A lattice point q is At(q).  A time
\* elapsed is a whole number of seconds.  The rounding of the float
\* coordinates is left out.
Speed == 10       \* RandomWaypointModel.speed, ManhattanModel.speed
AreaSize == 20    \* both entries of RandomWaypointModel.area_size
Tolerance == 1    \* RandomWaypointModel.tolerance

Abs(x) == IF x < 0 THEN -x ELSE x
\* the square of np.linalg.norm(q - p), p and q lattice points
DistSq(p, q) == (q[1] - p[1]) * (q[1] - p[1]) + (q[2] - p[2]) * (q[2] - p[2])

At(q) == [at |-> q, to |-> q, gone |-> 0]

\* n / sqrt(d) < m and n / sqrt(d) = m for integers n, m and d > 0, on the
\* squares
SurdLt(n, d, m) ==
  IF m >= 0 THEN n < 0 \/ n * n < m * m * d
            ELSE n < 0 /\ n * n > m * m * d
SurdEq(n, d, m) ==
  /\ (n >= 0) = (m >= 0)
  /\ n * n = m * m * d

\* coordinate i of position P is less than, or equal to, the integer m
CoordLt(P, i, m) ==
  IF P.gone = 0 THEN P.at[i] < m
  ELSE SurdLt(P.gone * (P.to[i] - P.at[i]), DistSq(P.at, P.to), m - P.at[i])
CoordEq(P, i, m) ==
  IF P.gone = 0 THEN P.at[i] = m
  ELSE SurdEq(P.gone * (P.to[i] - P.at[i]), DistSq(P.at, P.to), m - P.at[i])

\* the whole number r with r * r = n, or -1 if there is none
Root(n) ==
  IF \E r \in 0..n : r * r = n THEN CHOOSE r \in 0..n : r * r = n ELSE -1

\* a position written in one way only: a point of a leg that is a lattice
\* point is written as that lattice point
Norm(P) ==
  LET r == Root(DistSq(P.at, P.to))
      dx == P.to[1] - P.at[1]
      dy == P.to[2] - P.at[2]
  IN IF P.gone = 0 THEN At(P.at)
     ELSE IF r > 0 /\ (P.gone * dx) % r = 0 /\ (P.gone * dy) % r = 0
       THEN At(<<P.at[1] + (P.gone * dx) \div r,
                 P.at[2] + (P.gone * dy) \div r>>)
       ELSE P

\* the leg a position is on when it heads for tg: a lattice point starts
\* one, a point short of tg is on the leg it was put on
Leg(P, tg) == IF P.gone = 0 THEN [at |-> P.at, to |-> tg, gone |-> 0] ELSE P

\* distance < speed * time_elapsed, on the squares, distance being what is
\* left of the leg
Reaches(P, tg, speed, t) ==
  LET L == Leg(P, tg) IN
    speed * t > 0
      /\ DistSq(L.at, tg) < (L.gone + speed * t) * (L.gone + speed * t)

\* the last lines of both update_position methods: the target if it is
\* nearer than speed * time_elapsed, else the point speed * time_elapsed
\* further along the line to it.  P is a lattice point other than tg or a
\* point of a leg that ends at tg
MoveToward(P, tg, speed, t) ==
  LET L == Leg(P, tg) IN
    IF Reaches(P, tg, speed, t)
      THEN At(tg)
      ELSE Norm([L EXCEPT !.gone = @ + speed * t])

\* a model's target: None, or a point
NoTarget == [set |-> FALSE, at |-> <<0, 0>>]
Target(q) == [set |-> TRUE, at |-> q]

\* the points random.uniform draws the waypoint from: those of the area
\* whose coordinates are a whole number of seconds of travel
Area ==
  {Speed * i : i \in 0..(AreaSize \div Speed)}
    \X {Speed * i : i \in 0..(AreaSize \div Speed)}

\* RandomWaypointModel.__init__
NewWaypointModel == [target |-> NoTarget, pause_timer |-> 0, is_paused |-> FALSE]

\* np.all(np.abs(current_position - self.target) < self.tolerance)
AtTarget(P, tg) ==
  \A i \in 1..2 :
    /\ CoordLt(P, i, tg[i] + Tolerance)
    /\ ~CoordLt(P, i, tg[i] - Tolerance)
    /\ ~CoordEq(P, i, tg[i] - Tolerance)

\* a paused branch that goes on to the moving branch on the call that ends
\* the pause
WaypointPausedResumes(m, p, t, sample) ==
  LET timer == m.pause_timer + t
      limit == IF sample > 0 THEN sample ELSE 0
  IN IF timer >= limit
       THEN [model |-> [m EXCEPT !.is_paused = FALSE, !.pause_timer = 0],
             out |-> MoveToward(p, m.target.at, Speed, t)]
       ELSE [model |-> [m EXCEPT !.pause_timer = timer], out |-> p]

\* update_position, the branch `if self.is_paused` (mobility.py:136-141):
\* the timer grows by time_elapsed; the pause ends if it has reached
\* max(0.0, sample), sample being this call's draw of random.normalvariate;
\* the position given is returned
WaypointPaused(m, p, t, sample) ==
  LET timer == m.pause_timer + t
      limit == IF sample > 0 THEN sample ELSE 0
  IN IF timer >= limit
       THEN [model |-> [m EXCEPT !.is_paused = FALSE, !.pause_timer = 0],
             out |-> p]
       ELSE [model |-> [m EXCEPT !.pause_timer = timer], out |-> p]

\* a draw of the waypoint that also takes the first step towards it
WaypointDrawMoves(m, p, t, draw) ==
  [model |-> [m EXCEPT !.target = Target(draw), !.is_paused = TRUE],
   out |-> MoveToward(p, draw, Speed, t)]

\* update_position, the branch for no target or a target reached
\* (mobility.py:143-146): a new target is drawn, the model pauses, the
\* position given is returned
WaypointDraw(m, p, t, draw) ==
  [model |-> [m EXCEPT !.target = Target(draw), !.is_paused = TRUE],
   out |-> p]

\* update_position, the moving branch (mobility.py:148-154): nothing of the
\* model is assigned
WaypointMove(m, p, t) ==
  [model |-> m, out |-> MoveToward(p, m.target.at, Speed, t)]

\* RandomWaypointModel.update_position(current_position, time_elapsed),
\* with this call's random draws
WaypointUpdate(m, p, t, sample, draw) ==
  IF m.is_paused THEN WaypointPaused(m, p, t, sample)
  ELSE IF ~m.target.set \/ AtTarget(p, m.target.at)
    THEN WaypointDraw(m, p, t, draw)
    ELSE WaypointMove(m, p, t)

\* no model made yet
\* the threshold a call compares the pause timer with: max(0.0,
\* random.normalvariate(...)) of mobility.py:138 for the sample the call
\* draws; a call that is not paused draws none
NoLimit == -1
LimitUsed(m, sample) ==
  IF m.is_paused THEN (IF sample > 0 THEN sample ELSE 0) ELSE NoLimit

RwpInit == [made |-> FALSE, model |-> NewWaypointModel, pos |-> At(<<0, 0>>),
            n |-> 0, call |-> [given |-> At(<<0, 0>>), t |-> 0,
                               before |-> NewWaypointModel, limit |-> NoLimit]]

\* UE(ue_id, initial_position, RandomWaypointModel(...), scheduler)
NewWaypointUe(p) ==
  /\ pc = "idle"
  /\ ~rwp.made
  /\ rwp' = [rwp EXCEPT !.made = TRUE, !.pos = At(p)]
  /\ last' = "ue_made"
  /\ UNCHANGED <<schedVars, calls, routerVars, f1ep, e2Vars, fh, ricVars,
                 nonRtVars, xapps, mh>>

\* UE.update_position(time_elapsed): self.position =
\* self.mobility_model.update_position(self.position, time_elapsed).  `call`
\* keeps the position given, the time, the model as it was before the call
\* and the threshold the call used, n counts the calls
WaypointUpdatePosition(t, sample, draw) ==
  /\ pc = "idle"
  /\ rwp.made
  /\ rwp.n < MaxTicks
  /\ LET r == WaypointUpdate(rwp.model, rwp.pos, t, sample, draw) IN
       rwp' = [rwp EXCEPT !.model = r.model, !.pos = r.out, !.n = @ + 1,
                          !.call = [given |-> rwp.pos, t |-> t,
                                    before |-> rwp.model,
                                    limit |-> LimitUsed(rwp.model, sample)]]
  /\ last' = "position_updated"
  /\ UNCHANGED <<schedVars, calls, routerVars, f1ep, e2Vars, fh, ricVars,
                 nonRtVars, xapps, mh>>

GridRows == 2     \* ManhattanModel.grid_size[0]
GridCols == 3     \* ManhattanModel.grid_size[1]
BlockSize == 20   \* ManhattanModel.block_size

\* the cell of a lattice point: <<int(x // block_size), int(y //
\* block_size)>>, column first as in the arrays of possible_moves
CellOf(q) == <<q[1] \div BlockSize, q[2] \div BlockSize>>

\* the positions whose cell is a cell of the grid: both coordinates are at
\* least 0 and less than the width and the height of the grid
InGrid(P) ==
  /\ ~CoordLt(P, 1, 0) /\ CoordLt(P, 1, GridCols * BlockSize)
  /\ ~CoordLt(P, 2, 0) /\ CoordLt(P, 2, GridRows * BlockSize)
\* the positions a driver makes a UE at
GridPoints ==
  {Speed * i : i \in 0..((GridCols * BlockSize - 1) \div Speed)}
    \X {Speed * i : i \in 0..((GridRows * BlockSize - 1) \div Speed)}

\* possible_moves without the tests against grid_size
PossibleMovesNoUpperBound(col, row) ==
  (IF row > 0 THEN {<<col, row - 1>>} ELSE {})
    \cup {<<col, row + 1>>}
    \cup (IF col > 0 THEN {<<col - 1, row>>} ELSE {})
    \cup {<<col + 1, row>>}

\* possible_moves (mobility.py:191-199), as a set: the four neighbours of
\* the cell, each under its test
PossibleMoves(col, row) ==
  (IF row > 0 THEN {<<col, row - 1>>} ELSE {})
    \cup (IF row < GridRows - 1 THEN {<<col, row + 1>>} ELSE {})
    \cup (IF col > 0 THEN {<<col - 1, row>>} ELSE {})
    \cup (IF col < GridCols - 1 THEN {<<col + 1, row>>} ELSE {})

\* np.all(current_position == self.target)
OnTarget(P, tg) == CoordEq(P, 1, tg[1]) /\ CoordEq(P, 2, tg[2])

\* ManhattanModel.update_position chooses: no target, or the position is
\* the target
MhChooses(m, P) == ~m.target.set \/ OnTarget(P, m.target.at)

\* ManhattanModel.__init__ (before a UE is made)
MhInit == [made |-> FALSE, target |-> NoTarget, pos |-> At(<<0, 0>>), n |-> 0,
           call |-> [given |-> At(<<0, 0>>), t |-> 0, before |-> NoTarget,
                     chose |-> FALSE]]

\* UE(ue_id, initial_position, ManhattanModel(...), scheduler)
NewManhattanUe(q) ==
  /\ pc = "idle"
  /\ ~mh.made
  /\ mh' = [mh EXCEPT !.made = TRUE, !.pos = At(q)]
  /\ last' = "ue_made"
  /\ UNCHANGED <<schedVars, calls, routerVars, f1ep, e2Vars, fh, ricVars,
                 nonRtVars, xapps, rwp>>

\* UE.update_position(time_elapsed) with a ManhattanModel.  Choosing:
\* self.target = random.choice(possible_moves) * self.block_size, and the
\* position given is returned (random.choice of an empty list raises
\* IndexError and nothing is assigned).  Else the step towards the target
ManhattanUpdatePosition(t, move) ==
  /\ pc = "idle"
  /\ mh.made
  /\ mh.n < MaxTicks
  /\ LET cell == CellOf(mh.pos.at)
         moves == PossibleMoves(cell[1], cell[2])
     IN IF MhChooses(mh, mh.pos)
          THEN IF moves = {}
                 THEN /\ last' = "choice_raised"
                      /\ UNCHANGED mh
                 ELSE /\ move \in moves
                      /\ mh' = [mh EXCEPT
                           !.target = Target(<<move[1] * BlockSize,
                                               move[2] * BlockSize>>),
                           !.n = @ + 1,
                           !.call = [given |-> mh.pos, t |-> t,
                                     before |-> mh.target, chose |-> TRUE]]
                      /\ last' = "position_updated"
          ELSE /\ mh' = [mh EXCEPT
                    !.pos = MoveToward(mh.pos, mh.target.at, Speed, t),
                    !.n = @ + 1,
                    !.call = [given |-> mh.pos, t |-> t,
                              before |-> mh.target, chose |-> FALSE]]
               /\ last' = "position_updated"
  /\ UNCHANGED <<schedVars, calls, routerVars, f1ep, e2Vars, fh, ricVars,
                 nonRtVars, xapps, rwp>>

\* ------------------------------------------------------- specifications
Init ==
  /\ now = 0
  /\ queue = {}
  /\ eid = 0
  /\ pc = "idle"
  /\ cur = 0
  /\ runUntil = 0
  /\ nrun = 0
  /\ ues = <<>>
  /\ calls = <<>>
  /\ log = <<>>
  /\ last = "init"
  /\ nfail = 0
  /\ nodes = [n \in NodeIds |-> "none"]
  /\ mq = <<>>
  /\ sent = <<>>
  /\ recv = <<>>
  /\ f1ep = [n \in F1Names |-> "none"]
  /\ subs = <<>>
  /\ fan = NoFan
  /\ fh = [o_ru |-> "none", o_du |-> "none"]
  /\ policies = <<>>
  /\ e2nodes = <<>>
  /\ applied = <<>>
  /\ managed = <<>>
  /\ heap = <<>>
  /\ rapp = <<>>
  /\ xapps = <<>>
  /\ rwp = RwpInit
  /\ mh = MhInit

\* the scheduler under a driver and callbacks that call add_event and run
Next ==
  \/ \E d \in 0..MaxDelay : AddEvent(Sec(d))
  \/ \E d \in {-1} : AddEventNegative(Sec(d))
  \/ \E T \in 0..MaxTime : RunInvalid(Sec(T))
  \/ \E T \in 1..MaxTime : Run(Sec(T))
  \/ StepInit
  \/ StepTimeout
  \/ \E o \in {"ok", "raise", "raise_noname"} : CbReturn(o)
  \/ StepEnd
  \/ StepUntil
  \/ StepFail

Spec == Init /\ [][Next]_vars

\* a point-to-point router on the scheduler, under a driver that registers,
\* unregisters, sends and runs, and receive handlers that send
NextP2P ==
  \/ \E n \in Registrations : RegisterNode(n[1], n[2])
  \/ \E id \in NodeIds : UnregisterNode(id)
  \/ \E s \in NodeIds, d \in NodeIds : SendMessage(s, d)
  \/ \E T \in 1..MaxP2PTime : Run(Sec(T))
  \/ StepInit
  \/ StepTimeout
  \/ PmqDeliver
  \/ \E o \in {"ok", "raise"} : HandlerReturn(o)
  \/ PmqDone
  \/ StepEnd
  \/ StepUntil

SpecP2P == Init /\ [][NextP2P]_vars

\* a LoadBalancingRApp on the scheduler, registered once, with the Near-RT
\* RICs its Non-RT RIC manages and the DU registered or not at the A1
\* interface's Near-RT RIC
NextMonitor ==
  \/ \E r \in RicNames : AddManagedNearRtRic(r)
  \/ \E du \in {"o_du_1", "o_du_3"} : RegisterE2Node(du, "O_DU")
  \/ (\A c \in 1..Len(calls) : calls[c].kind # "monitor") /\ LbRegister
  \/ \E T \in 1..MaxMonitorTime : Run(Sec(T))
  \/ StepInit
  \/ StepTimeout
  \/ \E draw \in LoadDraws, otherHas \in SUBSET {"o_du_1", "o_du_3"} :
       MonitorODuLoad(draw, otherHas)
  \/ StepEnd
  \/ StepUntil

SpecMonitor == Init /\ [][NextMonitor]_vars

\* the X2/Xn router and plain callbacks on one scheduler, under a driver
\* that registers nodes, sends messages and schedules callbacks of delay 0;
\* callbacks and receive handlers return
NextOrder ==
  \/ \E n \in Registrations : RegisterNode(n[1], n[2])
  \/ \E d \in NodeIds : SendMessage("a", d)
  \/ AddEvent(0)
  \/ \E T \in 1..MaxP2PTime : Run(Sec(T))
  \/ StepInit
  \/ StepTimeout
  \/ CbReturn("ok")
  \/ PmqDeliver
  \/ HandlerReturn("ok")
  \/ PmqDone
  \/ StepEnd
  \/ StepUntil

SpecOrder == Init /\ [][NextOrder]_vars

\* the scheduler with UE mobility processes beside the callbacks, under a
\* driver that adds UEs and callbacks of delay 0.1 s between runs and runs
\* until a tenth of a second; a callback returns, an update_position returns
\* or raises
NextUe ==
  \/ pc = "idle" /\ AddEvent(Tenth)
  \/ pc = "idle" /\ AddUe
  \/ \E T \in 1..MaxUeTime : Run(T * Tenth)
  \/ StepInit
  \/ StepUeInit
  \/ StepTimeout
  \/ CbReturn("ok")
  \/ \E o \in {"ok", "raise"} : StepUeTick(o)
  \/ StepEnd
  \/ StepUntil
  \/ StepFail

SpecUe == Init /\ [][NextUe]_vars

\* the F1 router on the scheduler, under a driver that sets endpoints, sends
\* and runs, and receive handlers that send
NextF1 ==
  \/ \E n \in {"o_cu_cp", "o_du"} : \E h \in {"h1", "none"} :
       F1SetEndpoint(n, h)
  \/ \E s \in {"o_du", F1BadName} : \E d \in F1Names \cup {F1BadName} :
       F1SendMessage(s, d)
  \/ \E T \in 1..MaxP2PTime : Run(Sec(T))
  \/ StepInit
  \/ StepTimeout
  \/ F1PmqDeliver
  \/ \E o \in {"ok", "raise"} : HandlerReturn(o)
  \/ PmqDone
  \/ StepEnd
  \/ StepUntil

SpecF1 == Init /\ [][NextF1]_vars

\* the E2 publish/subscribe router on the scheduler, under a driver that
\* subscribes, unsubscribes, publishes and runs, and subscriber callbacks that
\* return, raise, subscribe or unsubscribe
NextE2 ==
  \/ \E id \in E2SubIds : \E cb \in E2Callbacks : E2Subscribe(id, cb)
  \/ \E id \in E2SubIds : E2Unsubscribe(id)
  \/ \E n \in E2NodeIds : E2SendMessage(n)
  \/ \E n \in E2NodeIds : E2SendIndication(n)
  \/ Run(Sec(MaxP2PTime))
  \/ StepInit
  \/ StepTimeout
  \/ E2PmqGet
  \/ FanCall
  \/ FanEnd
  \/ FanError
  \/ \E o \in {"ok", "raise"} : SubReturn(o)
  \/ \E op \in {"unsubscribe", "subscribe"} : \E id \in E2SubIds :
       SubMutate(op, id)
  \/ PmqDone
  \/ StepEnd
  \/ StepUntil

SpecE2 == Init /\ [][NextE2]_vars

\* the open fronthaul on the scheduler, under a driver that binds an O-RU
\* and an O-DU, transmits and runs; receive_iq_data returns or raises
NextFh ==
  \/ \E h \in {"ru1", "none"} : FhSetEndpoint("o_ru", h)
  \/ \E h \in {"du1", "none"} : FhSetEndpoint("o_du", h)
  \/ \E ru \in {fh.o_ru, "ru2"} : \E du \in {"du1", "none"} :
       \E x \in (-1)..MaxLatency : TransmitIqData(ru, du, Sec(x))
  \/ \E T \in {1, MaxFhTime} : Run(Sec(T))
  \/ StepInit
  \/ StepTimeout
  \/ \E o \in {"ok", "raise"} : CbReturn(o)
  \/ StepEnd
  \/ StepUntil

SpecFh == Init /\ [][NextFh]_vars

\* the Near-RT RIC under a driver that registers E2 nodes, hands it policies
\* (directly and through the A1 interface) and enforces
NextRic ==
  \/ \E n \in {<<"n1", "O_DU">>, <<"n2", "O_RU">>} : RegisterE2Node(n[1], n[2])
  \/ \E d \in [shape : DictShapes, id : PolicyIds, target : {"o_du", "o_cu"}] :
       ReceiveA1Policy(d)
  \/ \E d \in [shape : {"ok"}, id : {"p1"}, target : {"o_du", "o_ru"}] :
       \E r \in {"near_rt_ric", "other_ric"} : SendA1Policy(d, r)
  \/ EnforceA1Policies

SpecRic == Init /\ [][NextRic]_vars

\* the Non-RT RIC under a driver that adds managed Near-RT RICs, creates
\* policies and sends them over A1
NextNonRt ==
  \/ \E r \in RicNames : AddManagedNearRtRic(r)
  \/ CreateA1Policy("c1", "o_du")
  \/ \E o \in 1..Len(heap), r \in RicNames : NonRtSendA1Policy(o, r)

SpecNonRt == Init /\ [][NextNonRt]_vars

\* an rApp of a Non-RT RIC that manages the Near-RT RIC of the A1
\* interface, under a driver that creates, sends, updates and deletes the
\* rApp's policies and once hands a policy to the Near-RT RIC's
\* store_a1_policy itself
NextRApp ==
  \/ AddManagedNearRtRic("near_rt_ric")
  \/ /\ \A k \in 1..Len(sent) : sent[k].via # "store"
     /\ \E o \in 1..Len(heap) : StoreA1PolicyCall(o)
  \/ RAppCreateA1Policy("c1", "o_du")
  \/ \E n \in 1..2, r \in RicNames : RAppSendA1Policy(PolicyIdOf(n), r)
  \/ \E n \in 1..2 : RAppUpdateA1Policy(PolicyIdOf(n), "c2")
  \/ \E n \in 1..2 : RAppDeleteA1Policy(PolicyIdOf(n))

SpecRApp == Init /\ [][NextRApp]_vars

\* the Near-RT RIC's xApp registry and the E2 interface on the scheduler,
\* under a driver that adds and removes xApps, publishes and runs, and
\* xApps whose receive_indication returns, raises or unregisters the xApp
NextXapp ==
  \/ \E a \in XappAdds : AddXapp(a[1], a[2])
  \/ \E id \in XappIds : RemoveXapp(id)
  \/ \E n \in E2NodeIds : E2SendMessage(n)
  \/ \E T \in 1..MaxP2PTime : Run(Sec(T))
  \/ StepInit
  \/ StepTimeout
  \/ E2PmqGet
  \/ FanCall
  \/ FanEnd
  \/ FanError
  \/ \E o \in {"ok", "raise"} : SubReturn(o)
  \/ SubUnregister
  \/ PmqDone
  \/ StepEnd
  \/ StepUntil

SpecXapp == Init /\ [][NextXapp]_vars

\* a UE with a RandomWaypointModel under a driver that calls update_position
NextWaypoint ==
  \/ \E p \in Area : NewWaypointUe(p)
  \/ \E t \in 0..MaxElapsed, sample \in (-1)..MaxPause, draw \in Area :
       WaypointUpdatePosition(t, sample, draw)

SpecWaypoint == Init /\ [][NextWaypoint]_vars

\* a UE with a ManhattanModel, made at a position inside the grid, under a
\* driver that calls update_position
NextManhattan ==
  \/ \E q \in GridPoints : NewManhattanUe(q)
  \/ \E t \in 0..MaxElapsed :
       \E move \in (-1..GridCols) \X (-1..GridRows) :
         ManhattanUpdatePosition(t, move)

SpecManhattan == Init /\ [][NextManhattan]_vars

\* ------------------------------------------------------------------ claims
Calls == 1..Len(calls)
Sends == 1..Len(sent)

\* the call's process is still on the heap, its callback not yet called
Pending(c) == \E e \in queue : e.cb = c /\ e.kind \in {"init", "timeout"}

\* a run has just ended, by returning or by raising
RunEnded == last \in {"run_returned", "run_raised_cb", "run_raised_ue"}

\* C1: callbacks are invoked at their fire time, in non-decreasing order of
\* fire time, and callbacks of one fire time in the order of their add_event
\* calls
C1_InvocationOrder ==
  \A i, j \in 1..Len(log) :
    /\ log[i].time = FireTime(log[i].cb)
    /\ i < j =>
         \/ FireTime(log[i].cb) < FireTime(log[j].cb)
         \/ /\ FireTime(log[i].cb) = FireTime(log[j].cb)
            /\ log[i].cb < log[j].cb

\* two callbacks of one fire time, scheduled at different clock values, have
\* both been invoked
C1_Witness ==
  \E i, j \in 1..Len(log) :
    /\ i < j
    /\ FireTime(log[i].cb) = FireTime(log[j].cb)
    /\ calls[log[i].cb].at # calls[log[j].cb].at

\* C2 as stated: when run(until=T) returns, every callback whose fire time
\* is <= T has been invoked, one whose fire time is T included
C2_Original ==
  last = "run_returned" =>
    \A c \in Calls : FireTime(c) <= runUntil => c \in Invoked

\* what the code does: when run returns, the callbacks invoked so far are
\* exactly those whose fire time is earlier than the clock at the return;
\* one whose fire time equals that clock has not been invoked and is still
\* pending
C2_InvokedBeforeStop ==
  last = "run_returned" =>
    \A c \in Calls :
      /\ c \in Invoked <=> FireTime(c) < now
      /\ c \notin Invoked => Pending(c)

\* C3 as stated: a callback that raises never makes run raise, and a run in
\* which a callback raised still invokes every callback due before `until`
\* and ends with the clock at `until`
C3_Original ==
  /\ last # "run_raised_cb"
  /\ (last = "run_returned" /\
       (\E i \in 1..Len(log) :
          log[i].run = nrun /\ log[i].out \in {"raise", "raise_noname"})) =>
        /\ now = runUntil
        /\ \A c \in Calls : FireTime(c) < runUntil => c \in Invoked

\* C4: a rejected add_event (delay < 0) or run (until <= clock) changes
\* neither the clock nor the heap nor the histories, so every pending event
\* and every invocation belongs to an add_event call with delay >= 0
C4_MisuseChangesNothing ==
  /\ [](/\ \A c \in Calls : calls[c].delay >= 0
        /\ \A e \in queue : e.delay >= 0 /\ (e.cb # 0 => e.cb \in Calls)
        /\ \A i \in 1..Len(log) : log[i].cb \in Calls)
  /\ [][last' \in {"add_event_error", "run_error"} =>
          UNCHANGED <<now, queue, eid, pc, cur, runUntil, nrun, calls, log>>]_vars

\* an add_event with a negative delay has just been rejected inside a
\* callback, with events pending
C4_Witness ==
  /\ last = "add_event_error"
  /\ pc = "cb"
  /\ queue # {}

\* C5 as stated: when run(until=T) returns normally the clock equals T
C5_Original ==
  last = "run_returned" => now = runUntil

\* C7 as stated: when a run ends, every event that a callback scheduled
\* during it with a fire time before `until` has been invoked during it
C7_Original ==
  RunEnded =>
    \A c \in Calls :
      (calls[c].run = nrun /\ FireTime(c) < runUntil) =>
        \E i \in 1..Len(log) : log[i].cb = c /\ log[i].run = nrun

\* C8: send_message accepts a message only when its source and its
\* destination are both registered; a rejected send queues nothing, schedules
\* nothing and reaches no handler (whatever is queued or delivered is a
\* message that was accepted)
C8_SendRejected ==
  /\ [](/\ \A k \in Sends : sent[k].srcReg /\ sent[k].dstReg
        /\ \A i \in 1..Len(mq) : mq[i].msg \in Sends
        /\ \A i \in 1..Len(recv) : recv[i].msg \in Sends)
  /\ [][last' = "send_error" =>
          UNCHANGED <<mq, queue, eid, calls, sent, recv, nodes, now>>]_vars

\* a send has just been rejected while an accepted message waits in the queue
C8_Witness ==
  /\ last = "send_error"
  /\ mq # <<>>
  /\ \E n \in NodeIds : nodes[n] = "none"

\* the records of message k being taken off the queue
Dequeues(k) == {i \in 1..Len(recv) : recv[i].msg = k}

Queued(k) == \E i \in 1..Len(mq) : mq[i].msg = k

\* C9 as stated: every accepted message, once taken off the queue, has been
\* handed to a receive handler exactly once
C9_Original ==
  \A k \in Sends :
    ~Queued(k) =>
      Cardinality({i \in Dequeues(k) : recv[i].handle # "none"}) = 1

\* C9 amended: an accepted message is either still queued or has been taken
\* off the queue exactly once; it then went, with its source id, to the
\* handler of the node registered under its destination id at that moment
\* and to no other, or to nobody if the destination was no longer registered
C9_DeliveredOnce ==
  \A k \in Sends :
    /\ Cardinality(Dequeues(k)) <= 1
    /\ Queued(k) <=> Dequeues(k) = {}
    /\ \A i \in Dequeues(k) :
         /\ recv[i].src = sent[k].src
         /\ recv[i].dst = sent[k].dst
         /\ recv[i].handle = recv[i].reg[sent[k].dst]

\* after a run, one message was dropped for want of its destination and
\* another was handed to a handler
C9_Witness ==
  /\ last = "run_returned"
  /\ \E i, j \in 1..Len(recv) :
       recv[i].handle = "none" /\ recv[j].handle # "none"

\* C10: register_node never changes the node of an id that is registered,
\* and registering such an id changes nothing else either
C10_RegisterNoOverwrite ==
  [][/\ last' \in {"register_ok", "register_dup_same", "register_dup_other"} =>
          \A id \in NodeIds : nodes[id] # "none" => nodes'[id] = nodes[id]
     /\ last' \in {"register_dup_same", "register_dup_other"} =>
          UNCHANGED <<nodes, mq, queue, sent, recv>>]_vars

\* a registered id has just been registered again with a different node,
\* the other id being registered too
C10_Witness ==
  /\ last = "register_dup_other"
  /\ \A n \in NodeIds : nodes[n] # "none"
  /\ nodes["a"] # nodes["b"]

\* ---------------------------------------------------------------- C11
\* message k was taken off the queue in the pass of recv entry i, after it
DequeuedInPass(k, i) ==
  {j \in 1..Len(recv) : j > i /\ recv[j].msg = k /\ recv[j].pass = recv[i].pass}

\* the messages that were queued when the handler of recv entry i ended
RestOf(i) == {recv[i].rest[r].msg : r \in 1..Len(recv[i].rest)}

\* C11 as stated: when a receive handler raises, every message queued at
\* that moment is delivered to its destination's handler in the same pass
C11_Original ==
  \A i \in 1..Len(recv) : recv[i].out = "raised" =>
    \A k \in RestOf(i) :
      \/ log[recv[i].pass].out = "running" /\ Queued(k)
      \/ \E j \in DequeuedInPass(k, i) : recv[j].handle # "none"

\* C11: when a receive handler raises, the error is caught (the pass goes
\* on, nothing reaches the scheduler) and every message queued at that
\* moment is taken off the queue in the same pass and handed to the node
\* registered under its destination id at that moment; it is dropped only
\* if no node is registered under that id any more
C11_HandlerErrorIsolated ==
  \A i \in 1..Len(recv) : recv[i].out = "raised" =>
    /\ log[recv[i].pass].out \in {"running", "ok"}
    /\ \A k \in RestOf(i) :
         \/ log[recv[i].pass].out = "running" /\ Queued(k)
         \/ \E j \in DequeuedInPass(k, i) :
              /\ recv[j].handle = recv[j].reg[recv[j].dst]
              /\ recv[j].out = "keyerror" <=> recv[j].handle = "none"

\* a handler raised with a message queued behind it, and that message
\* reached its destination's handler in the same pass, which has ended
C11_Witness ==
  \E i \in 1..Len(recv) :
    /\ recv[i].out = "raised"
    /\ recv[i].rest # <<>>
    /\ log[recv[i].pass].out = "ok"
    /\ \E j \in DequeuedInPass(recv[i].rest[1].msg, i) :
         recv[j].handle # "none" /\ recv[j].out = "ok"

\* ---------------------------------------------------------------- C12
\* the recv entries of messages whose destination did not resolve when they
\* were taken off the queue: an X2/Xn id that is no longer registered, an F1
\* endpoint that is not set
Unresolved == {i \in 1..Len(recv) : recv[i].handle = "none"}

\* C12: a message whose destination cannot be resolved at delivery time is
\* dropped: no receive handler is invoked for it, nothing is raised out of
\* _process_message_queue (its pass is running or ended normally, and no
\* process died), and the messages queued behind it are taken off the queue
\* in the same pass
C12_UnresolvedDropped ==
  \A i \in Unresolved :
    /\ recv[i].out = "keyerror"
    /\ sent[recv[i].msg].dst = recv[i].dst
    /\ log[recv[i].pass].out \in {"running", "ok"}
    /\ nfail = 0
    /\ \A k \in RestOf(i) :
         \/ log[recv[i].pass].out = "running" /\ Queued(k)
         \/ DequeuedInPass(k, i) # {}

\* a message to an F1 endpoint that was never set was dropped, the message
\* queued behind it reached its endpoint's handler in the same pass, and the
\* run returned
C12_Witness ==
  /\ last = "run_returned"
  /\ \E i \in Unresolved :
       /\ ~sent[recv[i].msg].dstReg
       /\ recv[i].rest # <<>>
       /\ \E j \in DequeuedInPass(recv[i].rest[1].msg, i) :
            recv[j].handle # "none" /\ recv[j].out = "ok"

\* ---------------------------------------------------------------- C13
\* the subscribers whose callback was called with published message k
Receivers(k) == {recv[i].sub : i \in {j \in 1..Len(recv) : recv[j].msg = k}}

\* the callback invocations for message k that ended as `out`
CallsEnding(k, out) == {i \in 1..Len(recv) : recv[i].msg = k /\ recv[i].out = out}

\* a callback called subscribe or unsubscribe during the fan-out of k
Mutated(k) == CallsEnding(k, "subscribe") \cup CallsEnding(k, "unsubscribe") # {}

\* C13: in a fan-out (of a queued send_message, or of send_indication) in
\* which a subscriber's callback raises, and no callback subscribes or
\* unsubscribes, no error leaves the fan-out, and once it has ended every
\* subscriber of the moment it began has been called with the message,
\* exactly once
C13_SubscriberErrorIsolated ==
  \A k \in Sends : (CallsEnding(k, "raise") # {} /\ ~Mutated(k)) =>
    /\ sent[k].state \in {"running", "done"}
    /\ sent[k].state = "done" =>
         /\ Receivers(k) = sent[k].begin
         /\ Cardinality({i \in 1..Len(recv) : recv[i].msg = k})
              = Cardinality(sent[k].begin)

\* the first subscriber's callback raised, the second one was called after
\* it and the fan-out ended normally
C13_Witness ==
  \E k \in Sends :
    /\ sent[k].state = "done"
    /\ \E i, j \in 1..Len(recv) :
         /\ i < j
         /\ recv[i].msg = k /\ recv[i].out = "raise"
         /\ recv[j].msg = k /\ recv[j].out = "ok"

\* ---------------------------------------------------------------- C14
\* C14 as stated: when a subscriber's callback unsubscribes its own id
\* during a fan-out, no error leaves the fan-out, and every other subscriber
\* of the moment the fan-out began is called with the message
C14_Original ==
  \A i \in 1..Len(recv) :
    (recv[i].out = "unsubscribe" /\ recv[i].arg = recv[i].sub) =>
      LET k == recv[i].msg IN
        /\ sent[k].state \in {"running", "done"}
        /\ sent[k].state = "done" => sent[k].begin \subseteq Receivers(k)

\* ---------------------------------------------------------------- C15
\* C15 as stated: the subscribers called with a message published with
\* send_message are those subscribed when send_message was called
C15_Original ==
  \A k \in Sends :
    (sent[k].via = "msg" /\ sent[k].state = "done") =>
      Receivers(k) = sent[k].subsAt

\* ---------------------------------------------------------------- C16
\* the invocations of the callback of add_event call c
Invocations(c) == {i \in 1..Len(log) : log[i].cb = c}

\* C16: every transmit_iq_data with the bound O-RU and O-DU makes exactly
\* one add_event call, for receive_iq_data, with a delay that is the sampled
\* latency and is not negative; the negative-delay error never occurs; and
\* the data is handed to receive_iq_data at most once, at the clock of the
\* transmission plus the latency, never earlier
C16_DeliveryAfterLatency ==
  /\ last # "add_event_error"
  /\ Len(calls) = Len(sent)
  /\ \A k \in Sends :
       LET c == sent[k].call IN
         /\ c = k
         /\ sent[k].latency >= 0
         /\ sent[k].latency >= sent[k].sample
         /\ calls[c].kind = "iq"
         /\ calls[c].at = sent[k].at
         /\ calls[c].delay = sent[k].latency
         /\ Cardinality(Invocations(c)) <= 1
         /\ \A i \in Invocations(c) :
              log[i].time = TimePlus(sent[k].at, sent[k].latency)
         /\ Invocations(c) = {} => Pending(c)

\* one transmission whose samples added up to less than zero was delivered
\* at the clock of its transmission, and one with a positive latency was
\* delivered that much later
C16_Witness ==
  \E k, l \in Sends :
    /\ sent[k].sample < 0
    /\ \E i \in Invocations(sent[k].call) : log[i].time = sent[k].at
    /\ sent[l].latency > 0
    /\ \E i \in Invocations(sent[l].call) :
         log[i].time = TimePlus(sent[l].at, sent[l].latency)
           /\ log[i].out = "ok"

\* ---------------------------------------------------------------- C17
\* C17 as stated: receive_a1_policy stores a policy only if its policy_id is
\* not empty and its target is o_du or o_ru
C17_Original ==
  \A k \in Sends :
    (sent[k].via = "receive" /\ sent[k].stored) =>
      /\ sent[k].dict.id # ""
      /\ sent[k].dict.target \in {"o_du", "o_ru"}

\* ---------------------------------------------------------------- C18
\* the accepted policies with policy_id id, by their place in the history
AcceptedWith(id) == {k \in Sends : sent[k].stored /\ sent[k].dict.id = id}

\* the greatest element of a non-empty set of numbers
Latest(S) == CHOOSE k \in S : \A l \in S : l <= k

\* C18: a1_policies holds one entry for each policy_id among the accepted
\* policies and no other entry, and the entry of an id is the policy accepted
\* last with that id
C18_LastWriteWins ==
  /\ \A i, j \in 1..Len(policies) :
       policies[i].id = policies[j].id => i = j
  /\ \A i \in 1..Len(policies) :
       /\ AcceptedWith(policies[i].id) # {}
       /\ policies[i].seq = Latest(AcceptedWith(policies[i].id))
       /\ policies[i].target = sent[policies[i].seq].dict.target
  /\ \A k \in Sends :
       sent[k].stored => \E i \in 1..Len(policies) : policies[i].id = sent[k].dict.id

\* two policies with one id and different targets were accepted and the
\* store holds the second
C18_Witness ==
  \E k, l \in Sends :
    /\ k < l
    /\ sent[k].stored /\ sent[l].stored
    /\ sent[k].dict.id = sent[l].dict.id
    /\ sent[k].dict.target # sent[l].dict.target
    /\ Len(policies) = 1
    /\ policies[1].seq = l
    /\ policies[1].target = sent[l].dict.target

\* ---------------------------------------------------------------- C19
\* C19: enforce_a1_policies changes neither the policy store nor the element
\* registry, and two calls that find the same store and the same registry
\* log the same (policy, element) applications
C19_EnforceIdempotent ==
  /\ [](\A i, j \in 1..Len(applied) :
          (applied[i].store = applied[j].store
             /\ applied[i].registry = applied[j].registry)
          => applied[i].pairs = applied[j].pairs)
  /\ [][Len(applied') > Len(applied) =>
          /\ policies' = policies
          /\ e2nodes' = e2nodes
          /\ applied'[Len(applied')].store = policies'
          /\ applied'[Len(applied')].registry = e2nodes']_vars

\* enforce_a1_policies was called twice in a row on a store and a registry
\* with a matching pair, and logged the same applications both times
C19_Witness ==
  /\ Len(applied) = 2
  /\ applied[1].pairs # <<>>
  /\ applied[1].pairs = applied[2].pairs
  /\ applied[1].store = applied[2].store
  /\ applied[1].registry = applied[2].registry
  /\ applied[2].store = policies
  /\ applied[2].registry = e2nodes

\* ---------------------------------------------------------------- C20
\* the scenario of C20: the store holds one policy, sent through the A1
\* interface with target o_du, and one O_DU and one O_RU are registered
C20_Scenario(e) ==
  /\ Len(e.store) = 1
  /\ e.store[1].target = "o_du"
  /\ sent[e.store[1].seq].via = "send"
  /\ Len(e.registry) = 2
  /\ {e.registry[1].class, e.registry[2].class} = {"O_DU", "O_RU"}

\* the calls of enforcement record e on nodes of class c
InvokedOn(e, c) == SelectSeq(e.invoked, LAMBDA x : x.class = c)

\* what enforcement record e logged as applied to nodes of class c
LoggedFor(e, c) == SelectSeq(e.pairs, LAMBDA x : x.class = c)

\* C20 as stated: in that scenario enforce_a1_policies invokes the
\* policy-application callback of the O_DU element once, and the O_RU
\* element's never
C20_Original ==
  \A n \in 1..Len(applied) :
    C20_Scenario(applied[n]) =>
      /\ Len(InvokedOn(applied[n], "O_DU")) = 1
      /\ Len(InvokedOn(applied[n], "O_RU")) = 0

\* what the code does in that scenario: one "Applying policy" log line, for
\* the O_DU, none for the O_RU
EnforceLogsMatchingOnly ==
  \A n \in 1..Len(applied) :
    C20_Scenario(applied[n]) =>
      /\ Len(LoggedFor(applied[n], "O_DU")) = 1
      /\ Len(LoggedFor(applied[n], "O_RU")) = 0

\* ---------------------------------------------------------------- C21
\* the policies made by NonRTRIC.create_a1_policy, in call order
NonRtCreated == {o \in 1..Len(heap) : heap[o].by = "nonrt"}

\* C21 as stated: every policy that NonRTRIC.create_a1_policy returns has a
\* policy_id that differs from the id of every policy it returned before
C21_Original ==
  \A o, q \in NonRtCreated : o < q => heap[o].id # heap[q].id

\* ---------------------------------------------------------------- C22
\* the Near-RT RICs in the list of managed Near-RT RICs m
ManagedSet(m) == {m[i] : i \in 1..Len(m)}

\* C22 as stated: NonRTRIC.send_a1_policy reaches the policy store only for
\* a Near-RT RIC that is in managed_near_rt_rics at the call; for any other
\* it raises and stores nothing
C22_Original ==
  \A k \in Sends :
    sent[k].via = "nonrt" => sent[k].ric \in ManagedSet(sent[k].managedAt)

\* ---------------------------------------------------------------- C23
\* the entries of managed_near_rt_rics that are Near-RT RIC r
EntriesOf(r) == {i \in 1..Len(managed) : managed[i] = r}

\* C23 as stated: managed_near_rt_rics has at most one entry for a Near-RT
\* RIC, however often add_managed_near_rt_ric was called with it
C23_Original ==
  \A r \in RicNames : Cardinality(EntriesOf(r)) <= 1

\* ---------------------------------------------------------------- C24
\* the policies of a1_policies that came through the A1 interface from the
\* rApp
FromRApp == {i \in 1..Len(policies) : sent[policies[i].seq].via = "rapp"}

\* C24: a policy the Near-RT RIC holds that was sent over A1 has the
\* content and the version the sender's policy had when it was sent,
\* whatever the rApp has done to its own policy since (update_a1_policy,
\* delete_a1_policy)
C24_StoredCopyIndependent ==
  \A i \in FromRApp :
    /\ heap[policies[i].obj].content = sent[policies[i].seq].dict.content
    /\ heap[policies[i].obj].version = sent[policies[i].seq].dict.version
    /\ heap[policies[i].obj].id = policies[i].id

\* the Near-RT RIC holds two policies of the rApp; since they were sent the
\* rApp has given the first one another content and deleted the second one,
\* and the stored first policy still has the content that was sent
C24_Witness ==
  /\ Len(policies) = 2
  /\ FromRApp = {1, 2}
  /\ LET o == sent[policies[1].seq].obj IN
       /\ heap[o].updated
       /\ heap[o].content # sent[policies[1].seq].dict.content
       /\ heap[policies[1].obj].content = sent[policies[1].seq].dict.content
  /\ policies[2].id \notin RAppIds
  /\ last = "policy_deleted"

\* ---------------------------------------------------------------- C25
\* C25 as stated: an update_a1_policy call on a policy the rApp holds leaves
\* the policy with another version than it had before the call
C25_Original ==
  [][last' = "policy_updated" =>
       \E o \in 1..Len(heap) :
         /\ heap'[o].updated
         /\ heap'[o].version # heap[o].version]_vars

\* what the code does: the update replaces the content and leaves the
\* version at the one the policy was created with
UpdateKeepsVersion ==
  \A o \in 1..Len(heap) :
    heap[o].updated => heap[o].content = "c2" /\ heap[o].version = FirstVersion

\* ---------------------------------------------------------------- C26
\* the items of a dict, as a set
DictItems(d) == {d[i] : i \in 1..Len(d)}

\* C26 as stated: after any add_xapp and remove_xapp calls the ids of the
\* registered xApps are the ids of the E2 interface's subscribers; and a
\* delivery of a published message begins with the xApps registered at that
\* moment, does not fail, and once it has ended has called exactly those
C26_Original ==
  /\ DictKeys(xapps) = DictKeys(subs)
  /\ \A k \in Sends :
       /\ sent[k].state \in {"queued", "running", "done"}
       /\ sent[k].state = "done" => Receivers(k) = sent[k].begin
  /\ pc = "fan" /\ fan.pos = 0 => sent[fan.msg].begin = DictKeys(xapps)

\* what the code does: the subscribers are the registered xApps whose id is
\* a str, each id with the receive_indication of the xApp registered under
\* it; and a delivery in which no xApp unregisters from inside its
\* receive_indication calls, once it has ended, exactly the subscribers of
\* the moment it began
C26_StrXappsAreSubscribers ==
  /\ {e \in DictItems(xapps) : IsStr(e.id)} = DictItems(subs)
  /\ \A k \in Sends :
       ~Mutated(k) =>
         /\ sent[k].state \in {"queued", "running", "done"}
         /\ sent[k].state = "done" => Receivers(k) = sent[k].begin
  /\ pc = "fan" /\ fan.pos = 0 => sent[fan.msg].begin = DictKeys(subs)

\* ---------------------------------------------------------------- C27
\* C27: an update_position call on a RandomWaypointModel that is paused
\* returns the position it was given, whatever the time elapsed and
\* whether or not the pause ends on that call
C27_PausedKeepsPosition ==
  (rwp.n > 0 /\ rwp.call.before.is_paused) => rwp.pos = rwp.call.given

\* the third or a later call found the model paused, with time already on
\* the pause timer, took time itself and ended the pause, away from the
\* target, and the position is the one it was given
C27_Witness ==
  /\ rwp.n >= 3
  /\ rwp.call.before.is_paused
  /\ rwp.call.before.pause_timer > 0
  /\ rwp.call.t > 0
  /\ ~rwp.model.is_paused
  /\ At(rwp.model.target.at) # rwp.pos
  /\ rwp.pos = rwp.call.given

\* ---------------------------------------------------------------- C28
\* distance <= speed * time_elapsed, on the squares
Within(P, tg, speed, t) ==
  LET L == Leg(P, tg) IN
    DistSq(L.at, tg) <= (L.gone + speed * t) * (L.gone + speed * t)

\* the latest call found the model moving towards a target it had not
\* reached, at a distance of at most speed * time_elapsed
Arrives ==
  /\ rwp.n > 0
  /\ ~rwp.call.before.is_paused
  /\ rwp.call.before.target.set
  /\ ~AtTarget(rwp.call.given, rwp.call.before.target.at)
  /\ Within(rwp.call.given, rwp.call.before.target.at, Speed, rwp.call.t)

\* C28 as stated: the call on which a moving model reaches its target
\* returns the target, and the model is paused when the call returns
C28_Original ==
  Arrives => /\ rwp.pos = At(rwp.call.before.target.at)
             /\ rwp.model.is_paused

\* what the code does: that call returns the target and leaves the model
\* moving, with the same target; it is the next call that pauses it
ArrivalKeepsMoving ==
  Arrives => /\ rwp.pos = At(rwp.call.before.target.at)
             /\ rwp.model = rwp.call.before

\* ---------------------------------------------------------------- C29
\* C29: a new RandomWaypointModel is moving and has no target; its first
\* update_position call sets a target inside the area and returns the
\* position it was given, whatever the time elapsed
C29_FirstTickDrawsTarget ==
  /\ (rwp.made /\ rwp.n = 0) =>
       ~rwp.model.is_paused /\ ~rwp.model.target.set
  /\ rwp.n = 1 =>
       /\ rwp.call.before = NewWaypointModel
       /\ rwp.model.target.set
       /\ rwp.model.target.at \in Area
       /\ rwp.pos = rwp.call.given

\* the first call took time and drew a target away from the position
C29_Witness ==
  /\ rwp.n = 1
  /\ rwp.call.t = MaxElapsed
  /\ rwp.model.target.set
  /\ At(rwp.model.target.at) # rwp.pos
  /\ rwp.pos = rwp.call.given

\* ---------------------------------------------------------------- C30
\* cells c and d are neighbours: one row or one column apart, not both
Adjacent(c, d) == Abs(c[1] - d[1]) + Abs(c[2] - d[2]) = 1

\* C30: a ManhattanModel used from a position inside the grid stays inside
\* it, its target is always the corner of a cell of the grid, and a call that
\* chooses a target chooses the corner of a cell next to the cell of the
\* position it was given
C30_TargetAdjacentInBounds ==
  /\ mh.made => InGrid(mh.pos)
  /\ mh.target.set =>
       /\ InGrid(At(mh.target.at))
       /\ mh.target.at = <<CellOf(mh.target.at)[1] * BlockSize,
                           CellOf(mh.target.at)[2] * BlockSize>>
  /\ (mh.n > 0 /\ mh.call.chose) =>
       Adjacent(CellOf(mh.call.given.at), CellOf(mh.target.at))

\* the model has reached a target in the last row and the last column of
\* the grid and has chosen the next target from there
C30_Witness ==
  /\ mh.n >= 3
  /\ mh.call.chose
  /\ mh.call.before.set
  /\ mh.call.given = At(mh.call.before.at)
  /\ CellOf(mh.call.given.at) = <<GridCols - 1, GridRows - 1>>
  /\ mh.pos = mh.call.given

\* ---------------------------------------------------------------- C31
\* coordinate i of P and of Q is the same number, for lattice points and
\* points of one leg
SameCoord(P, Q, i) ==
  IF Q.gone = 0 THEN CoordEq(P, i, Q.at[i])
  ELSE IF P.gone = 0 THEN CoordEq(Q, i, P.at[i])
  ELSE P.to[i] = P.at[i] \/ P.gone = Q.gone

\* C31 as stated: an update_position call on a ManhattanModel returns a
\* position that differs from the position it was given in at most one
\* coordinate
C31_Original ==
  mh.n > 0 => (SameCoord(mh.pos, mh.call.given, 1)
                 \/ SameCoord(mh.pos, mh.call.given, 2))

\* ---------------------------------------------------------------- C32
\* C32: when A1Interface.send_policy returns for the interface's own
\* Near-RT RIC, the RIC's policy store holds, under the id of the policy
\* that was sent, a policy with the field values of the sender's policy
C32_StoredEqualsSent ==
  last = "policy_sent" =>
    LET o == sent[Len(sent)].obj IN
      \E i \in 1..Len(policies) :
        /\ policies[i].id = heap[o].id
        /\ heap[policies[i].obj].id = heap[o].id
        /\ heap[policies[i].obj].target = heap[o].target
        /\ heap[policies[i].obj].content = heap[o].content
        /\ heap[policies[i].obj].version = heap[o].version

\* a policy was sent, given another content by the rApp and sent again: the
\* second send has just returned and the store holds, under the one id, the
\* content of the second send
C32_Witness ==
  /\ last = "policy_sent"
  /\ Len(sent) = 2
  /\ sent[1].obj = sent[2].obj
  /\ sent[1].dict.content # sent[2].dict.content
  /\ Len(policies) = 1
  /\ heap[policies[1].obj].content = sent[2].dict.content

\* ---------------------------------------------------------------- C33
\* C33 as stated: once the delivery pass of a message sent with
\* E2Interface.send_message has run to its end, the Near-RT RIC's
\* receive_e2_message is among the calls the pass made with the message
C33_Original ==
  \A k \in 1..Len(sent) :
    (sent[k].via = "msg" /\ sent[k].state = "done") =>
      \E i \in 1..Len(recv) :
        recv[i].msg = k /\ recv[i].sub = "near_rt_ric"

\* ---------------------------------------------------------------- C34
\* C34 as stated: the pause threshold is fixed for a pause: a paused call
\* that follows a paused call of the same pause compares the timer with
\* the threshold the call before it used, and the pause ends in the first
\* call in which the timer reaches it
C34_Original ==
  [][(/\ rwp'.n = rwp.n + 1
      /\ rwp.model.is_paused
      /\ rwp.call.before.is_paused)
       => /\ rwp'.call.limit = rwp.call.limit
          /\ rwp'.model.is_paused
               <=> rwp.model.pause_timer + rwp'.call.t < rwp.call.limit]_vars

\* what the code does: every paused call compares the timer with its own
\* draw, and the pause ends in the first call whose draw the timer has
\* reached
C34_PausedCallUsesOwnDraw ==
  (rwp.n > 0 /\ rwp.call.before.is_paused) =>
    (rwp.model.is_paused
       <=> rwp.call.before.pause_timer + rwp.call.t < rwp.call.limit)

\* ---------------------------------------------------------------- C35
\* the update_position calls of UE u that raised
Raised(u) == {k \in 1..Len(ues[u].ticks) : ues[u].ticks[k].out = "raise"}

\* the time at which the k-th update_position call of UE u is due: 0.1 s
\* after the one before it, the first one 0.1 s after add_ue
RECURSIVE TickDue(_, _)
TickDue(u, k) ==
  IF k = 0 THEN ues[u].at ELSE TimePlus(TickDue(u, k - 1), UeTick)

\* every update_position call of UE u came when it was due, and no call
\* that the clock has passed is missing
TicksEveryPeriod(u) ==
  /\ \A k \in 1..Len(ues[u].ticks) : ues[u].ticks[k].time = TickDue(u, k)
  /\ ~(TickDue(u, Len(ues[u].ticks) + 1) < now)

\* C35 as stated: after add_ue the UE's update_position is called once per
\* tick period for as long as the clock advances; the mobility process
\* never stops
C35_Original == \A u \in 1..Len(ues) : TicksEveryPeriod(u)

\* what the code does: the process goes on for as long as update_position
\* returns, and its last call is the first one that raises
C35_TicksUntilRaise ==
  \A u \in 1..Len(ues) :
    /\ Raised(u) = {} => TicksEveryPeriod(u)
    /\ Raised(u) \subseteq {Len(ues[u].ticks)}

\* ---------------------------------------------------------------- C36
\* C36 as stated: what a UE's update_position raises does not leave run:
\* no run ends by raising it, and a run that returns has brought the clock
\* to its `until`
C36_Original ==
  /\ last # "run_raised_ue"
  /\ last = "run_returned" => now = runUntil

\* ---------------------------------------------------------------- C37
\* the messages sent so far that were taken off the queue at the instant
\* at which they were sent
DequeuedAtSend ==
  {k \in 1..Len(sent) :
     \E i \in 1..Len(recv) : recv[i].msg = k /\ recv[i].time = sent[k].at}

\* C37: a send_message that accepts a message queues it and delivers
\* nothing itself; and whenever the clock advances, the queue is empty and
\* every message sent so far was taken off the queue at the instant of its
\* send
C37_QueueEmptyWhenClockAdvances ==
  [][/\ Len(sent') > Len(sent) =>
          /\ recv' = recv
          /\ Len(mq') = Len(mq) + 1
          /\ mq'[Len(mq')].msg = Len(sent')
     /\ now' # now =>
          /\ mq = <<>>
          /\ DequeuedAtSend = 1..Len(sent)]_vars

\* the clock has advanced past the sends of two messages, one of them sent
\* by a receive handler during the run, and both were delivered at the
\* instant of their send
C37_Witness ==
  /\ Len(sent) = 2
  /\ \A k \in 1..Len(sent) : sent[k].at < now
  /\ \E c \in 1..Len(calls) : calls[c].kind = "pmq" /\ calls[c].run > 0
  /\ DequeuedAtSend = {1, 2}
  /\ mq = <<>>

\* ---------------------------------------------------------------- C38
\* the deliveries in which a receive handler was invoked
HandlerCalls == {i \in 1..Len(recv) : recv[i].handle # "none"}

\* C38: on one router the receive handlers are invoked in the order of the
\* sends: of two handler invocations the earlier one is for the message
\* sent earlier, whatever the destinations and however the handlers end
C38_DeliveryFifo ==
  \A i \in HandlerCalls, j \in HandlerCalls :
    i < j => recv[i].msg < recv[j].msg

\* two messages for two destinations were queued together; the handler of
\* the first one raised and the handler of the second one was invoked after
\* it, in the same pass
C38_Witness ==
  /\ Len(recv) = 2
  /\ HandlerCalls = {1, 2}
  /\ recv[1].msg = 1 /\ recv[2].msg = 2
  /\ recv[1].dst # recv[2].dst
  /\ recv[1].out = "raised"
  /\ recv[1].rest # <<>>
  /\ recv[2].pass = recv[1].pass

\* ---------------------------------------------------------------- C39
\* the add_event call that send_message made for message k: the k-th call
\* that schedules a processing pass
PassCallOf(k) ==
  CHOOSE c \in Calls :
    /\ calls[c].kind = "pmq"
    /\ Cardinality({b \in 1..c : calls[b].kind = "pmq"}) = k

\* callback c was invoked before the pass that log entry p records
RanBefore(c, p) == \E l \in 1..Len(log) : l < p /\ log[l].cb = c

\* C39 as stated: a callback scheduled with add_event(0, A) before message k
\* is sent at the same instant is invoked before message k is handed to its
\* receive handler
C39_Original ==
  \A c \in Calls : \A k \in Sends :
    (/\ calls[c].kind = "user"
     /\ calls[c].delay = 0
     /\ calls[c].at = sent[k].at
     /\ c < PassCallOf(k))
      => \A i \in Dequeues(k) : RanBefore(c, recv[i].pass)

\* what the code does: a message is taken off the queue by the first pass
\* that runs after it was queued, which is the pass of its own send or the
\* pass of a message sent before it
C39_DeliveredByEarliestPass ==
  \A k \in Sends : \A i \in Dequeues(k) :
    log[recv[i].pass].cb \in {PassCallOf(j) : j \in 1..k}

\* ---------------------------------------------------------------- C40
\* the monitoring passes that have ended, as entries of log
PassesEnded ==
  {l \in 1..Len(log) :
     calls[log[l].cb].kind = "monitor" /\ log[l].out # "running"}

\* the pass of log entry l scheduled another pass, MonitorDelay after it
Rescheduled(l) ==
  \E c \in Calls :
    /\ calls[c].kind = "monitor"
    /\ c > log[l].cb
    /\ calls[c].at = log[l].time
    /\ calls[c].delay = MonitorDelay

\* C40 as stated: every monitoring pass that has ended, also one that
\* raised, has scheduled another pass 5 time units after it
C40_Original == \A l \in PassesEnded : Rescheduled(l)

\* what the code does: a pass schedules the next one iff it ran to its
\* last statement
C40_RescheduledIffReturned ==
  \A l \in PassesEnded : Rescheduled(l) <=> log[l].out = "ok"

====
